---- MODULE Spec2Model ----
(***************************************************************************)
(* gaap: the package transition engine (pkg/installer), the metadata store *)
(* (pkg/storage/libsql.go) and the asset selector (pkg/platform).          *)
(*                                                                         *)
(* Strings are TLA+ strings; Len, \o and SubSeq act on them as on          *)
(* sequences of characters.  Paths are relative to the configured root.    *)
(***************************************************************************)
EXTENDS Integers, Sequences, FiniteSets, TLC

(***************************************************************************)
(* Bounds of the model.                                                    *)
(***************************************************************************)
\* invocations of Install, Update and Remove in one behaviour
MaxOps == 3

\* tag names the latest release can carry
Tags == {"v1", "v2"}

\* the processes that can run the tool; the tool itself is single-threaded
Procs == {1, 2}
SeqProcs == {1}

\* the repositories one behaviour works with: two that share the repo name,
\* or two whose owner and repo spell the same "owner-repo"
Universes == { {"a/c", "b/c"}, {"a-b/c", "a/b-c"} }

\* arguments that do not have the form owner/repo
BadArgs == {"ac", "a/b/c"}

\* repository arguments given to Install
RepoArgs == UNION Universes \cup BadArgs

\* asset lists a release can carry (names only; size and URL play no role)
AssetLists == { <<"src.tar", "Tool-Win64.EXE", "app-linux-amd64">>,
                <<"test-unsupported-platform">> }

\* values of platform.Current() the model is run on
CurrentPlatforms == { [OS |-> "linux", Arch |-> "amd64"],
                      [OS |-> "windows", Arch |-> "amd64"] }

(***************************************************************************)
(* strings package                                                         *)
(***************************************************************************)
Contains(s, sub) ==
  \E i \in 1..(Len(s) - Len(sub) + 1) : SubSeq(s, i, i + Len(sub) - 1) = sub

HasSuffix(s, suf) ==
  Len(s) >= Len(suf) /\ SubSeq(s, Len(s) - Len(suf) + 1, Len(s)) = suf

Upper == "ABCDEFGHIJKLMNOPQRSTUVWXYZ"
Lower == "abcdefghijklmnopqrstuvwxyz"

\* the lower-case letter of each upper-case letter
LowerOf ==
  [ c \in { SubSeq(Upper, i, i) : i \in 1..26 } |->
      LET i == CHOOSE j \in 1..26 : SubSeq(Upper, j, j) = c IN SubSeq(Lower, i, i) ]

LowerChar(c) == IF c \in DOMAIN LowerOf THEN LowerOf[c] ELSE c

RECURSIVE ToLower(_)
ToLower(s) ==
  IF Len(s) = 0 THEN s
  ELSE LowerChar(SubSeq(s, 1, 1)) \o ToLower(SubSeq(s, 2, Len(s)))

RECURSIVE Split(_, _)
Split(s, sep) ==
  IF ~Contains(s, sep) THEN <<s>>
  ELSE LET i == CHOOSE k \in 1..Len(s) :
                  /\ SubSeq(s, k, k) = sep
                  /\ \A j \in 1..(k - 1) : SubSeq(s, j, j) # sep
       IN <<SubSeq(s, 1, i - 1)>> \o Split(SubSeq(s, i + 1, Len(s)), sep)

\* strings.Split(repoName, "/") of the arguments of the model
Parts == [ r \in RepoArgs |-> Split(r, "/") ]

(***************************************************************************)
(* pkg/platform                                                            *)
(***************************************************************************)
PlatformString(p) == p.OS \o "-" \o p.Arch

ScoreIf(c, n) == IF c THEN n ELSE 0

\* a variant of matchScore without the penalty for source archives
matchScoreOfSources(name, p) ==
  LET os ==
        CASE p.OS = "linux" ->
               IF Contains(name, "linux") THEN 10
               ELSE IF Contains(name, "gnu") THEN 5 ELSE 0
          [] p.OS = "darwin" ->
               ScoreIf(Contains(name, "darwin") \/ Contains(name, "macos")
                         \/ Contains(name, "osx"), 10)
          [] p.OS = "windows" ->
               IF Contains(name, "windows") \/ Contains(name, "win") THEN 10
               ELSE IF HasSuffix(name, ".exe") THEN 5 ELSE 0
          [] OTHER -> 0
      arch ==
        CASE p.Arch = "amd64" ->
               ScoreIf(Contains(name, "amd64") \/ Contains(name, "x86_64")
                         \/ Contains(name, "64"), 5)
          [] p.Arch = "386" ->
               ScoreIf(Contains(name, "386") \/ Contains(name, "x86")
                         \/ Contains(name, "32"), 5)
          [] p.Arch = "arm64" ->
               ScoreIf(Contains(name, "arm64") \/ Contains(name, "aarch64"), 5)
          [] p.Arch = "arm" ->
               IF Contains(name, "arm") /\ ~Contains(name, "arm64")
               THEN 5 - ScoreIf(Contains(name, "armv"), 2)
               ELSE 0
          [] OTHER -> 0
  IN os + arch

matchScore(name, p) ==
  LET os ==
        CASE p.OS = "linux" ->
               IF Contains(name, "linux") THEN 10
               ELSE IF Contains(name, "gnu") THEN 5 ELSE 0
          [] p.OS = "darwin" ->
               ScoreIf(Contains(name, "darwin") \/ Contains(name, "macos")
                         \/ Contains(name, "osx"), 10)
          [] p.OS = "windows" ->
               IF Contains(name, "windows") \/ Contains(name, "win") THEN 10
               ELSE IF HasSuffix(name, ".exe") THEN 5 ELSE 0
          [] OTHER -> 0
      arch ==
        CASE p.Arch = "amd64" ->
               ScoreIf(Contains(name, "amd64") \/ Contains(name, "x86_64")
                         \/ Contains(name, "64"), 5)
          [] p.Arch = "386" ->
               ScoreIf(Contains(name, "386") \/ Contains(name, "x86")
                         \/ Contains(name, "32"), 5)
          [] p.Arch = "arm64" ->
               ScoreIf(Contains(name, "arm64") \/ Contains(name, "aarch64"), 5)
          [] p.Arch = "arm" ->
               IF Contains(name, "arm") /\ ~Contains(name, "arm64")
               THEN 5 - ScoreIf(Contains(name, "armv"), 2)
               ELSE 0
          [] OTHER -> 0
      src == ScoreIf(Contains(name, "src") \/ Contains(name, "source"), 10)
  IN os + arch - src

Patterns(p) ==
  << p.OS \o "_" \o p.Arch, p.OS \o "-" \o p.Arch, p.OS, p.OS \o p.Arch >>

\* a variant of PassHits whose first pass does not skip the armv names
PassHitsArmvToo(p, assets, anyArmv) ==
  LET name == [ i \in 1..Len(assets) |-> ToLower(assets[i]) ]
      pattern == Patterns(p)
  IN { h \in (1..4) \X (1..Len(assets)) :
         /\ Contains(name[h[2]], pattern[h[1]])
         /\ anyArmv \/ p.Arch = "arm" }

\* the (pattern, asset) positions at which a pass of the nested loops returns
PassHits(p, assets, anyArmv) ==
  LET name == [ i \in 1..Len(assets) |-> ToLower(assets[i]) ]
      pattern == Patterns(p)
  IN { h \in (1..4) \X (1..Len(assets)) :
         /\ Contains(name[h[2]], pattern[h[1]])
         /\ \/ anyArmv
            \/ p.Arch = "arm" /\ ~Contains(name[h[2]], "armv") }

\* the first position in loop order: patterns outer, assets inner
FirstHit(hits) ==
  CHOOSE h \in hits :
    \A g \in hits : h[1] < g[1] \/ (h[1] = g[1] /\ h[2] <= g[2])

\* a variant of BestMatch that keeps the last of the best-scoring assets
BestMatchLastSeen(p, assets) ==
  LET sc == [ i \in 1..Len(assets) |-> matchScore(ToLower(assets[i]), p) ]
      cand  == { i \in 1..Len(assets) :
                   /\ sc[i] > 0
                   /\ \A j \in 1..Len(assets) : sc[j] <= sc[i]
                   /\ \A j \in (i + 1)..Len(assets) : sc[j] < sc[i] }
  IN IF cand = {} THEN 0 ELSE CHOOSE i \in cand : TRUE

\* a variant of BestMatch that accepts a best score of zero
BestMatchFromZero(p, assets) ==
  LET sc == [ i \in 1..Len(assets) |-> matchScore(ToLower(assets[i]), p) ]
      cand  == { i \in 1..Len(assets) :
                   /\ sc[i] >= 0
                   /\ \A j \in 1..Len(assets) : sc[j] <= sc[i]
                   /\ \A j \in 1..(i - 1) : sc[j] < sc[i] }
  IN IF cand = {} THEN 0 ELSE CHOOSE i \in cand : TRUE

\* the index of the best-scoring asset, the first among equals; 0 when no
\* asset scores above zero
BestMatch(p, assets) ==
  LET sc == [ i \in 1..Len(assets) |-> matchScore(ToLower(assets[i]), p) ]
      cand  == { i \in 1..Len(assets) :
                   /\ sc[i] > 0
                   /\ \A j \in 1..Len(assets) : sc[j] <= sc[i]
                   /\ \A j \in 1..(i - 1) : sc[j] < sc[i] }
  IN IF cand = {} THEN 0 ELSE CHOOSE i \in cand : TRUE

\* the index of the selected asset in the list, 0 for "no suitable asset"
SelectAsset(p, assets) ==
  IF PassHits(p, assets, FALSE) # {}
  THEN FirstHit(PassHits(p, assets, FALSE))[2]
  ELSE IF p.Arch = "arm" /\ PassHits(p, assets, TRUE) # {}
  THEN FirstHit(PassHits(p, assets, TRUE))[2]
  ELSE BestMatch(p, assets)

\* SelectAsset on the platforms and asset lists of the model
Selected ==
  [ p \in CurrentPlatforms, assets \in AssetLists |-> SelectAsset(p, assets) ]

(***************************************************************************)
(* pkg/config and the file system layout                                   *)
(***************************************************************************)
DirBin == "bin"
DirBinActual == DirBin \o "/" \o "actual"

\* filepath.Join(dirs.BinActual, binaryName)
BinaryPath(binaryName) == DirBinActual \o "/" \o binaryName

\* filepath.Join(dirs.Bin, repo), with ".exe" appended on windows
SymlinkPath(repo, p) ==
  IF p.OS = "windows" THEN DirBin \o "/" \o repo \o ".exe"
  ELSE DirBin \o "/" \o repo

\* a variant of BinaryName that compares the suffix without folding the case
BinaryNameCaseSensitive(owner, repo, tag, assetName) ==
  IF HasSuffix(assetName, ".exe")
  THEN owner \o "-" \o repo \o "-" \o tag \o ".exe"
  ELSE owner \o "-" \o repo \o "-" \o tag

\* fmt.Sprintf("%s-%s-%s", owner, repo, tag), ".exe" added for a .exe asset
BinaryName(owner, repo, tag, assetName) ==
  IF HasSuffix(ToLower(assetName), ".exe")
  THEN owner \o "-" \o repo \o "-" \o tag \o ".exe"
  ELSE owner \o "-" \o repo \o "-" \o tag

(***************************************************************************)
(* pkg/storage: the packages table, a set of rows                          *)
(***************************************************************************)
\* the zero time.Time of a Package that was never stored
ZeroTime == 0

Package(owner, repo, version, binary, frozen, platform) ==
  [ Owner |-> owner, Repo |-> repo, Version |-> version, Binary |-> binary,
    Frozen |-> frozen, Platform |-> platform,
    InstalledAt |-> ZeroTime, UpdatedAt |-> ZeroTime ]

\* the rows SELECT ... WHERE owner = ? AND repo = ? yields; empty is the nil result
GetPackage(tbl, owner, repo) ==
  { r \in tbl : r.Owner = owner /\ r.Repo = repo }

\* a variant of AddPackage for a table without the primary key
AddPackageWithoutKey(tbl, pkg, now) ==
  [ok |-> TRUE,
   tbl |-> tbl \cup {[pkg EXCEPT !.InstalledAt = now, !.UpdatedAt = now]}]

\* a variant of AddPackage that stores the times of the struct it is given
AddPackageCallerTimes(tbl, pkg, now) ==
  IF GetPackage(tbl, pkg.Owner, pkg.Repo) # {}
  THEN [ok |-> FALSE, tbl |-> tbl]
  ELSE [ok |-> TRUE, tbl |-> tbl \cup {pkg}]

\* INSERT under PRIMARY KEY (owner, repo); ok is FALSE on a key conflict
AddPackage(tbl, pkg, now) ==
  IF GetPackage(tbl, pkg.Owner, pkg.Repo) # {}
  THEN [ok |-> FALSE, tbl |-> tbl]
  ELSE [ok |-> TRUE,
        tbl |-> tbl \cup {[pkg EXCEPT !.InstalledAt = now, !.UpdatedAt = now]}]

\* a variant of UpdatePackage that leaves the binary column as it was
UpdatePackageKeepsBinary(tbl, pkg, now) ==
  IF GetPackage(tbl, pkg.Owner, pkg.Repo) = {}
  THEN [ok |-> FALSE, tbl |-> tbl]
  ELSE [ok |-> TRUE,
        tbl |-> { IF r.Owner = pkg.Owner /\ r.Repo = pkg.Repo
                  THEN [r EXCEPT !.Version = pkg.Version,
                                 !.Frozen = pkg.Frozen, !.Platform = pkg.Platform,
                                 !.UpdatedAt = now]
                  ELSE r : r \in tbl }]

\* a variant of UpdatePackage that does not set updated_at
UpdatePackageKeepsUpdatedAt(tbl, pkg, now) ==
  IF GetPackage(tbl, pkg.Owner, pkg.Repo) = {}
  THEN [ok |-> FALSE, tbl |-> tbl]
  ELSE [ok |-> TRUE,
        tbl |-> { IF r.Owner = pkg.Owner /\ r.Repo = pkg.Repo
                  THEN [r EXCEPT !.Version = pkg.Version, !.Binary = pkg.Binary,
                                 !.Frozen = pkg.Frozen, !.Platform = pkg.Platform]
                  ELSE r : r \in tbl }]

\* UPDATE ... WHERE owner = ? AND repo = ?; ok is FALSE when no row matched
UpdatePackage(tbl, pkg, now) ==
  IF GetPackage(tbl, pkg.Owner, pkg.Repo) = {}
  THEN [ok |-> FALSE, tbl |-> tbl]
  ELSE [ok |-> TRUE,
        tbl |-> { IF r.Owner = pkg.Owner /\ r.Repo = pkg.Repo
                  THEN [r EXCEPT !.Version = pkg.Version, !.Binary = pkg.Binary,
                                 !.Frozen = pkg.Frozen, !.Platform = pkg.Platform,
                                 !.UpdatedAt = now]
                  ELSE r : r \in tbl }]

\* a variant of DeletePackage that does not look at the rows affected
DeletePackageAnyRows(tbl, owner, repo) ==
  [ok |-> TRUE, tbl |-> tbl \ GetPackage(tbl, owner, repo)]

\* DELETE ... WHERE owner = ? AND repo = ?; ok is FALSE when no row matched
DeletePackage(tbl, owner, repo) ==
  IF GetPackage(tbl, owner, repo) = {}
  THEN [ok |-> FALSE, tbl |-> tbl]
  ELSE [ok |-> TRUE, tbl |-> tbl \ GetPackage(tbl, owner, repo)]

(***************************************************************************)
(* State                                                                   *)
(***************************************************************************)
VARIABLES
  packages,  \* rows of the packages table
  files,     \* paths of the regular files in the binary store
  links,     \* symlinks of the symlink directory: [path, target]
  dirs,      \* directories that exist
  clock,     \* the reading of time.Now() the next stored row gets
  ops,       \* invocations begun so far
  plat,      \* platform.Current()
  repos,     \* the owner/repo arguments the user works with
  run        \* per process: the invocation in progress, or its result

world == <<packages, files, links, dirs>>
env == <<clock, plat, repos>>
vars == <<packages, files, links, dirs, clock, ops, plat, repos, run>>

\* the persistent resources as one value
World == [packages |-> packages, files |-> files, links |-> links, dirs |-> dirs]
EmptyWorld == [packages |-> {}, files |-> {}, links |-> {}, dirs |-> {}]

NoOpts == [NonInteractive |-> FALSE, Freeze |-> FALSE, DryRun |-> FALSE]
Options == [NonInteractive : BOOLEAN, Freeze : BOOLEAN, DryRun : BOOLEAN]

\* Update does not read Freeze; Remove reads DryRun alone
UpdateOptions == { o \in Options : ~o.Freeze }
RemoveOptions == { o \in Options : ~o.Freeze /\ ~o.NonInteractive }

NoPackage == Package("", "", "", "", FALSE, "")

\* the local variables of an invocation; pre, net, ok and bad record, for the
\* properties, the resources at entry, the network calls made, and the steps
\* that succeeded and failed
Idle ==
  [ pc |-> "idle", op |-> "none", repoName |-> "", opts |-> NoOpts,
    owner |-> "", repo |-> "", pkg |-> NoPackage, tag |-> "", asset |-> "",
    binaryName |-> "", oldBinary |-> "", undo |-> <<>>, err |-> "",
    assets |-> <<>>, score |-> 0, queries |-> <<>>, found |-> 0,
    prompted |-> FALSE, selected |-> 0, batch |-> FALSE, todo |-> <<>>,
    log |-> <<>>,
    pre |-> EmptyWorld, net |-> 0, ok |-> {}, bad |-> {} ]

\* return e ("" is nil)
Finish(l, e) == [l EXCEPT !.pc = "done", !.err = e]

\* failure of a step, returned after the compensating removals in todo
Fail(l, step, e, todo) ==
  IF todo = <<>> THEN [Finish(l, e) EXCEPT !.bad = @ \cup {step}]
  ELSE [l EXCEPT !.pc = "cleanup", !.err = e, !.undo = todo, !.bad = @ \cup {step}]

Pass(l, step, next) == [l EXCEPT !.pc = next, !.ok = @ \cup {step}]

Exists(path) == path \in files \/ \E k \in links : k.path = path

Init ==
  /\ packages = {}
  /\ files = {}
  /\ links = {}
  /\ dirs = {}
  /\ clock = 1
  /\ ops = 0
  /\ plat \in CurrentPlatforms
  /\ repos \in Universes
  /\ run = [p \in Procs |-> Idle]

(***************************************************************************)
(* Steps shared by Install and Update                                      *)
(***************************************************************************)
\* "Proceed? [Y/n]": the answers the user can type
Responses == {"", "Y", "n"}

Cancelled(opts, response) ==
  ~opts.NonInteractive /\ response # "" /\ ToLower(response) # "y"

\* a new invocation starts when the previous one has returned
Enter(p) ==
  /\ run[p].pc \in {"idle", "done"}
  /\ ops < MaxOps
  /\ ops' = ops + 1

\* ensureDir(dirs.BinActual); ensureDir(dirs.Bin): creating a directory can
\* fail, finding it present cannot
EnsureDirs(p, pcAt, next) ==
  /\ run[p].pc = pcAt
  /\ \/ /\ dirs' = dirs \cup {DirBin, DirBinActual}
        /\ run' = [run EXCEPT ![p] = Pass(@, "dirs", next)]
     \/ /\ DirBinActual \notin dirs
        /\ run' = [run EXCEPT ![p] =
                     Fail(@, "dirs", "failed to create bin directory", <<>>)]
        /\ UNCHANGED dirs
  /\ UNCHANGED <<packages, files, links, clock, ops, plat, repos>>

\* ghClient.DownloadAsset(ctx, asset, path): the file can be left behind
\* partly written when the transfer fails after os.Create
Download(p, pcAt, next) ==
  /\ run[p].pc = pcAt
  /\ LET l == [run[p] EXCEPT !.net = @ + 1]
         path == BinaryPath(l.binaryName)
     IN \/ /\ files' = files \cup {path}
           /\ run' = [run EXCEPT ![p] = Pass(l, "download", next)]
        \/ /\ files' \in {files, files \cup {path}}
           /\ run' = [run EXCEPT ![p] =
                        Fail(l, "download", "failed to download asset", <<>>)]
  /\ dirs' = dirs \cup {DirBin, DirBinActual}
  /\ UNCHANGED <<packages, links, clock, ops, plat, repos>>

\* os.Chmod(path, 0755); on failure the paths in todo are removed
Chmod(p, pcAt, next, todo) ==
  /\ run[p].pc = pcAt
  /\ \/ /\ BinaryPath(run[p].binaryName) \in files
        /\ run' = [run EXCEPT ![p] = Pass(@, "chmod", next)]
     \/ run' = [run EXCEPT ![p] =
                  Fail(@, "chmod", "failed to make binary executable", todo)]
  /\ UNCHANGED <<packages, files, links, dirs, clock, ops, plat, repos>>

\* os.Symlink(binaryPath, symlinkPath), which fails when the path is taken;
\* on failure the paths in todo are removed
Symlink(p, pcAt, next, e, todo) ==
  /\ run[p].pc = pcAt
  /\ LET path == SymlinkPath(run[p].repo, plat)
         target == BinaryPath(run[p].binaryName)
     IN \/ /\ ~Exists(path)
           /\ links' = links \cup {[path |-> path, target |-> target]}
           /\ run' = [run EXCEPT ![p] = Pass(@, "symlink", next)]
        \/ /\ run' = [run EXCEPT ![p] = Fail(@, "symlink", e, todo)]
           /\ UNCHANGED links
  /\ UNCHANGED <<packages, files, dirs, clock, ops, plat, repos>>

\* os.Remove(path) with the error dropped, once for each path queued by the
\* failed step; then the step's error is returned
Cleanup(p) ==
  /\ run[p].pc = "cleanup"
  /\ LET path == Head(run[p].undo)
         rest == Tail(run[p].undo)
         l == IF rest = <<>> THEN [run[p] EXCEPT !.pc = "done", !.undo = rest]
              ELSE [run[p] EXCEPT !.undo = rest]
     IN \/ /\ files' = files \ {path}
           /\ links' = { k \in links : k.path # path }
           /\ run' = [run EXCEPT ![p] = l]
        \/ /\ Exists(path)
           /\ run' = [run EXCEPT ![p] = [l EXCEPT !.bad = @ \cup {"cleanup"}]]
           /\ UNCHANGED <<files, links>>
  /\ UNCHANGED <<packages, dirs, clock, ops, plat, repos>>

(***************************************************************************)
(* Install                                                                 *)
(***************************************************************************)
\* a variant of InstallChecks that returns in dry-run mode before the lookup
InstallChecksDryRunFirst(l0, parts, tbl) ==
  IF Len(parts) # 2
  THEN Finish(l0, "invalid repository name")
  ELSE LET l1 == [l0 EXCEPT !.owner = parts[1], !.repo = parts[2]]
           l2 == [l1 EXCEPT !.ok = @ \cup {"lookup"}]
       IN IF l0.opts.DryRun
          THEN Finish(l1, "")
          ELSE IF GetPackage(tbl, parts[1], parts[2]) # {}
          THEN Finish(l2, "package is already installed")
          ELSE [l2 EXCEPT !.pc = "i_release"]

\* a variant of InstallChecks that takes the first two parts of an argument
\* with more than one "/"
InstallChecksFirstTwoParts(l0, parts, tbl) ==
  IF Len(parts) < 2
  THEN Finish(l0, "invalid repository name")
  ELSE LET l1 == [l0 EXCEPT !.owner = parts[1], !.repo = parts[2],
                            !.ok = @ \cup {"lookup"}]
       IN IF GetPackage(tbl, parts[1], parts[2]) # {}
          THEN Finish(l1, "package is already installed")
          ELSE IF l0.opts.DryRun
          THEN Finish(l1, "")
          ELSE [l1 EXCEPT !.pc = "i_release"]

\* the checks that precede the release lookup, in the order they are made:
\* the form of the argument, the stored record (store.GetPackage, marked
\* "lookup"), dry-run mode
InstallChecks(l0, parts, tbl) ==
  IF Len(parts) # 2
  THEN Finish(l0, "invalid repository name")
  ELSE LET l1 == [l0 EXCEPT !.owner = parts[1], !.repo = parts[2],
                            !.ok = @ \cup {"lookup"}]
       IN IF GetPackage(tbl, parts[1], parts[2]) # {}
          THEN Finish(l1, "package is already installed")
          ELSE IF l0.opts.DryRun
          THEN Finish(l1, "")
          ELSE [l1 EXCEPT !.pc = "i_release"]

\* parse the argument, look the package up, return at once in dry-run mode
InstallBegin(p, repoName, opts) ==
  /\ Enter(p)
  /\ LET l0 == [Idle EXCEPT !.op = "Install", !.repoName = repoName,
                            !.opts = opts, !.pre = World]
     IN run' = [run EXCEPT ![p] = InstallChecks(l0, Parts[repoName], packages)]
  /\ UNCHANGED <<world, env>>

\* GetLatestRelease, SelectAsset, the confirmation prompt, the binary name
InstallRelease(p) ==
  /\ run[p].pc = "i_release"
  /\ LET l == [run[p] EXCEPT !.net = @ + 1]
     IN \/ run' = [run EXCEPT ![p] =
                     Fail(l, "release", "failed to get latest release", <<>>)]
        \/ \E tag \in Tags, assets \in AssetLists, response \in Responses :
             LET i == Selected[plat, assets]
                 lr == Pass(l, "release", "i_dirs")
             IN run' = [run EXCEPT ![p] =
                  IF i = 0
                  THEN Fail(lr, "select", "failed to select asset", <<>>)
                  ELSE IF Cancelled(l.opts, response)
                  THEN Fail(lr, "confirm", "installation cancelled by user", <<>>)
                  ELSE [lr EXCEPT !.tag = tag, !.asset = assets[i],
                          !.binaryName = BinaryName(l.owner, l.repo, tag, assets[i])]]
  /\ UNCHANGED <<world, env, ops>>

InstallEnsureDirs(p) == EnsureDirs(p, "i_dirs", "i_download")

InstallDownload(p) == Download(p, "i_download", "i_chmod")

\* a variant of InstallChmod that drops the result of os.Chmod
InstallChmodUnchecked(p) ==
  /\ run[p].pc = "i_chmod"
  /\ \/ /\ BinaryPath(run[p].binaryName) \in files
        /\ run' = [run EXCEPT ![p] = Pass(@, "chmod", "i_symlink")]
     \/ run' = [run EXCEPT ![p] =
                  [@ EXCEPT !.pc = "i_symlink", !.bad = @ \cup {"chmod"}]]
  /\ UNCHANGED <<packages, files, links, dirs, clock, ops, plat, repos>>

\* a binary that cannot be made executable is left in place
InstallChmod(p) == Chmod(p, "i_chmod", "i_symlink", <<>>)

InstallSymlink(p) ==
  Symlink(p, "i_symlink", "i_add", "failed to create symlink",
          <<BinaryPath(run[p].binaryName)>>)

\* a variant of InstallAddCleanup that leaves the symlink behind
InstallAddCleanupBinaryOnly(repo, binaryName) == <<BinaryPath(binaryName)>>

\* the removals that follow a failed AddPackage, in the order they are made
InstallAddCleanup(repo, binaryName) ==
  <<SymlinkPath(repo, plat), BinaryPath(binaryName)>>

\* store.AddPackage; on failure the symlink, then the binary, are removed
InstallAdd(p) ==
  /\ run[p].pc = "i_add"
  /\ LET l == run[p]
         pkg == Package(l.owner, l.repo, l.tag, l.binaryName, l.opts.Freeze,
                        PlatformString(plat))
         res == AddPackage(packages, pkg, clock)
     IN \/ /\ res.ok
           /\ packages' = res.tbl
           /\ clock' = clock + 1
           /\ run' = [run EXCEPT ![p] =
                        Finish(Pass([l EXCEPT !.pkg = pkg], "insert", "done"), "")]
        \/ /\ run' = [run EXCEPT ![p] =
                        Fail([l EXCEPT !.pkg = pkg], "insert",
                             "failed to add package to database",
                             InstallAddCleanup(l.repo, l.binaryName))]
           /\ UNCHANGED <<packages, clock>>
  /\ UNCHANGED <<files, links, dirs, ops, plat, repos>>

(***************************************************************************)
(* Update                                                                  *)
(***************************************************************************)
\* variants of UpdateReturnsEarly that make one of the two checks only
UpdateReturnsEarlyDryRunOnly(pkg, opts) == opts.DryRun

UpdateReturnsEarlyFrozenOnly(pkg, opts) == pkg.Frozen

\* Update returns before any work for a frozen package and in dry-run mode
UpdateReturnsEarly(pkg, opts) == pkg.Frozen \/ opts.DryRun

\* a variant of AtLatestVersion that never finds the package up to date
AtLatestVersionNever(tag, pkg) == FALSE

\* release.TagName == pkg.Version
AtLatestVersion(tag, pkg) == tag = pkg.Version

\* the frozen and dry-run returns; pkg is a row the caller read from the store
UpdateEntry(pkg, opts) ==
  LET l == [Idle EXCEPT !.op = "Update", !.opts = opts, !.pkg = pkg,
                        !.owner = pkg.Owner, !.repo = pkg.Repo, !.pre = World]
  IN IF UpdateReturnsEarly(pkg, opts) THEN Finish(l, "")
     ELSE [l EXCEPT !.pc = "u_release"]

UpdateBegin(p, pkg, opts) ==
  /\ Enter(p)
  /\ pkg \in packages
  /\ run' = [run EXCEPT ![p] = UpdateEntry(pkg, opts)]
  /\ UNCHANGED <<world, env>>

\* GetLatestRelease, the version comparison, SelectAsset, the prompt, the names
UpdateRelease(p) ==
  /\ run[p].pc = "u_release"
  /\ LET l == [run[p] EXCEPT !.net = @ + 1]
     IN \/ run' = [run EXCEPT ![p] =
                     Fail(l, "release", "failed to get latest release", <<>>)]
        \/ \E tag \in Tags, assets \in AssetLists, response \in Responses :
             LET i == Selected[plat, assets]
                 lr == Pass([l EXCEPT !.tag = tag], "release", "u_dirs")
             IN run' = [run EXCEPT ![p] =
                  IF AtLatestVersion(tag, l.pkg)
                  THEN Finish(lr, "")
                  ELSE IF i = 0
                  THEN Fail(lr, "select", "failed to select asset", <<>>)
                  ELSE IF Cancelled(l.opts, response)
                  THEN Fail(lr, "confirm", "update cancelled by user", <<>>)
                  ELSE [lr EXCEPT !.asset = assets[i],
                          !.oldBinary = l.pkg.Binary,
                          !.binaryName = BinaryName(l.owner, l.repo, tag, assets[i])]]
  /\ UNCHANGED <<world, env, ops>>

UpdateEnsureDirs(p) == EnsureDirs(p, "u_dirs", "u_download")

UpdateDownload(p) == Download(p, "u_download", "u_chmod")

UpdateChmod(p) ==
  Chmod(p, "u_chmod", "u_rmlink", <<BinaryPath(run[p].binaryName)>>)

\* os.Remove(symlinkPath): every error, a missing symlink included, aborts
UpdateRemoveSymlink(p) ==
  /\ run[p].pc = "u_rmlink"
  /\ LET path == SymlinkPath(run[p].repo, plat)
     IN \/ /\ Exists(path)
           /\ links' = { k \in links : k.path # path }
           /\ run' = [run EXCEPT ![p] = Pass(@, "rmlink", "u_symlink")]
        \/ /\ run' = [run EXCEPT ![p] =
                        Fail(@, "rmlink", "failed to remove old symlink",
                             <<BinaryPath(run[p].binaryName)>>)]
           /\ UNCHANGED links
  /\ UNCHANGED <<packages, files, dirs, clock, ops, plat, repos>>

UpdateSymlink(p) ==
  Symlink(p, "u_symlink", "u_store", "failed to create new symlink",
          <<BinaryPath(run[p].binaryName)>>)

\* pkg.Version, pkg.Binary, pkg.Platform are set, then store.UpdatePackage
UpdateStore(p) ==
  /\ run[p].pc = "u_store"
  /\ LET l == run[p]
         pkg == [l.pkg EXCEPT !.Version = l.tag, !.Binary = l.binaryName,
                              !.Platform = PlatformString(plat)]
         res == UpdatePackage(packages, pkg, clock)
     IN \/ /\ res.ok
           /\ packages' = res.tbl
           /\ clock' = clock + 1
           /\ run' = [run EXCEPT ![p] =
                        Pass([l EXCEPT !.pkg = [pkg EXCEPT !.UpdatedAt = clock]],
                             "update", "u_rmold")]
        \/ /\ run' = [run EXCEPT ![p] =
                        Fail([l EXCEPT !.pkg = pkg], "update",
                             "failed to update package in database",
                             <<SymlinkPath(l.repo, plat), BinaryPath(l.binaryName)>>)]
           /\ UNCHANGED <<packages, clock>>
  /\ UNCHANGED <<files, links, dirs, ops, plat, repos>>

\* os.Remove(oldBinaryPath), the error dropped
UpdateRemoveOld(p) ==
  /\ run[p].pc = "u_rmold"
  /\ LET path == BinaryPath(run[p].oldBinary)
     IN \/ /\ files' = files \ {path}
           /\ run' = [run EXCEPT ![p] = Finish(Pass(@, "rmold", "done"), "")]
        \/ /\ path \in files
           /\ run' = [run EXCEPT ![p] =
                        Finish([@ EXCEPT !.bad = @ \cup {"rmold"}], "")]
           /\ UNCHANGED files
  /\ UNCHANGED <<packages, links, dirs, clock, ops, plat, repos>>

(***************************************************************************)
(* Remove                                                                  *)
(***************************************************************************)
\* Package values a caller can hold for a package that has no row
StalePackages ==
  { Package(Parts[r][1], Parts[r][2], "v1",
            BinaryName(Parts[r][1], Parts[r][2], "v1", ""), FALSE, "") :
      r \in repos }

\* a variant of RemoveBegin that deletes the record before the files
RemoveBeginRecordFirst(p, pkg, opts) ==
  /\ Enter(p)
  /\ \/ pkg \in packages
     \/ pkg \in StalePackages /\ GetPackage(packages, pkg.Owner, pkg.Repo) = {}
  /\ LET l == [Idle EXCEPT !.op = "Remove", !.opts = opts, !.pkg = pkg,
                           !.owner = pkg.Owner, !.repo = pkg.Repo,
                           !.binaryName = pkg.Binary, !.pre = World]
     IN IF opts.DryRun
        THEN /\ run' = [run EXCEPT ![p] = Finish(l, "")]
             /\ UNCHANGED packages
        ELSE /\ run' = [run EXCEPT ![p] = [l EXCEPT !.pc = "r_link"]]
             /\ packages' = DeletePackage(packages, pkg.Owner, pkg.Repo).tbl
  /\ UNCHANGED <<files, links, dirs, env>>

\* the dry-run return; pkg is a row the caller read, or holds from earlier
RemoveBegin(p, pkg, opts) ==
  /\ Enter(p)
  /\ \/ pkg \in packages
     \/ pkg \in StalePackages /\ GetPackage(packages, pkg.Owner, pkg.Repo) = {}
  /\ LET l == [Idle EXCEPT !.op = "Remove", !.opts = opts, !.pkg = pkg,
                           !.owner = pkg.Owner, !.repo = pkg.Repo,
                           !.binaryName = pkg.Binary, !.pre = World]
     IN run' = [run EXCEPT ![p] =
          IF opts.DryRun THEN Finish(l, "") ELSE [l EXCEPT !.pc = "r_link"]]
  /\ UNCHANGED <<world, env>>

\* a variant of RemoveIgnoringNotExist for which a missing path is an error
RemoveNotIgnoringNotExist(p, pcAt, next, step, path, e) ==
  /\ run[p].pc = pcAt
  /\ \/ /\ Exists(path)
        /\ files' = files \ {path}
        /\ links' = { k \in links : k.path # path }
        /\ run' = [run EXCEPT ![p] = Pass(@, step, next)]
     \/ /\ run' = [run EXCEPT ![p] = Fail(@, step, e, <<>>)]
        /\ UNCHANGED <<files, links>>
  /\ UNCHANGED <<packages, dirs, clock, ops, plat, repos>>

\* os.Remove(path) where a missing path is not an error
RemoveIgnoringNotExist(p, pcAt, next, step, path, e) ==
  /\ run[p].pc = pcAt
  /\ \/ /\ files' = files \ {path}
        /\ links' = { k \in links : k.path # path }
        /\ run' = [run EXCEPT ![p] = Pass(@, step, next)]
     \/ /\ Exists(path)
        /\ run' = [run EXCEPT ![p] = Fail(@, step, e, <<>>)]
        /\ UNCHANGED <<files, links>>
  /\ UNCHANGED <<packages, dirs, clock, ops, plat, repos>>

RemoveSymlink(p) ==
  RemoveIgnoringNotExist(p, "r_link", "r_binary", "rmlink",
                         SymlinkPath(run[p].repo, plat), "failed to remove symlink")

\* a variant of RemoveBinary that goes on to the record when the deletion fails
RemoveBinaryBestEffort(p) ==
  /\ run[p].pc = "r_binary"
  /\ LET path == BinaryPath(run[p].binaryName)
     IN \/ /\ files' = files \ {path}
           /\ links' = { k \in links : k.path # path }
           /\ run' = [run EXCEPT ![p] = Pass(@, "rmbinary", "r_record")]
        \/ /\ Exists(path)
           /\ run' = [run EXCEPT ![p] =
                        [@ EXCEPT !.pc = "r_record", !.bad = @ \cup {"rmbinary"}]]
           /\ UNCHANGED <<files, links>>
  /\ UNCHANGED <<packages, dirs, clock, ops, plat, repos>>

RemoveBinary(p) ==
  RemoveIgnoringNotExist(p, "r_binary", "r_record", "rmbinary",
                         BinaryPath(run[p].binaryName), "failed to remove binary")

\* store.DeletePackage, the one step that must succeed
RemoveRecord(p) ==
  /\ run[p].pc = "r_record"
  /\ LET res == DeletePackage(packages, run[p].owner, run[p].repo)
     IN \/ /\ res.ok
           /\ packages' = res.tbl
           /\ run' = [run EXCEPT ![p] = Finish(Pass(@, "delete", "done"), "")]
        \/ /\ run' = [run EXCEPT ![p] =
                        Fail(@, "delete", "failed to remove package from database", <<>>)]
           /\ UNCHANGED packages
  /\ UNCHANGED <<files, links, dirs, clock, ops, plat, repos>>

(***************************************************************************)
(* Integrity Auditor (clear-broken)                                        *)
(***************************************************************************)
\* the root directory, as the scripts' test data have it
RootDir == "/home/user/gaap"

\* the path of the binary of a row: {root}/bin/actual/{binary}
InstallPath(binary) == RootDir \o "/" \o BinaryPath(binary)

\* trim(s): the spaces at both ends removed
RECURSIVE Trim(_)
Trim(s) ==
  IF Len(s) = 0 THEN s
  ELSE IF SubSeq(s, 1, 1) = " " THEN Trim(SubSeq(s, 2, Len(s)))
  ELSE IF SubSeq(s, Len(s), Len(s)) = " " THEN Trim(SubSeq(s, 1, Len(s) - 1))
  ELSE s

\* s LIKE '%-%-%'
LikeHyphenated(s) ==
  \E i \in 1..Len(s) :
    /\ SubSeq(s, i, i) = "-"
    /\ \E j \in (i + 1)..Len(s) : SubSeq(s, j, j) = "-"

\* the WHERE clause of the check and of the DELETE (LIKE folds ASCII case)
Broken(install_path, binary_name) ==
  \/ ~Contains(ToLower(install_path), "/bin/actual/")
  \/ ~LikeHyphenated(install_path)
  \/ binary_name = ""
  \/ Trim(binary_name) = ""

\* the binary identifiers the engine can store
Binaries ==
  { BinaryName(Parts[r][1], Parts[r][2], t, ".exe") : r \in UNION Universes, t \in Tags }
  \cup { BinaryName(Parts[r][1], Parts[r][2], t, "") : r \in UNION Universes, t \in Tags }

\* the WHERE clause on the row of each of them
BrokenBinary == [ b \in Binaries |-> Broken(InstallPath(b), b) ]

\* a variant of Deleted without the test of trim(binary_name)
DeletedUntrimmed(install_path, binary_name) ==
  \/ ~Contains(ToLower(install_path), "/bin/actual/")
  \/ ~LikeHyphenated(install_path)
  \/ binary_name = ""

\* the WHERE clause of the DELETE
Deleted(install_path, binary_name) ==
  \/ ~Contains(ToLower(install_path), "/bin/actual/")
  \/ ~LikeHyphenated(install_path)
  \/ binary_name = ""
  \/ Trim(binary_name) = ""

DeletedBinary == [ b \in Binaries |-> Deleted(InstallPath(b), b) ]

\* a row of the table of the scripts carries install_path and binary_name
IsScriptRow(r) == "install_path" \in DOMAIN r

\* the rows the check lists
BrokenPackages(tbl) ==
  { r \in tbl : IF IsScriptRow(r) THEN Broken(r.install_path, r.binary_name)
                ELSE BrokenBinary[r.Binary] }

\* the rows the DELETE removes
DeletedPackages(tbl) ==
  { r \in tbl : IF IsScriptRow(r) THEN Deleted(r.install_path, r.binary_name)
                ELSE DeletedBinary[r.Binary] }

\* a variant of ClearBroken whose DELETE has no WHERE clause
ClearBrokenEveryRow(p, confirmed) ==
  /\ Enter(p)
  /\ LET l == Pass([Idle EXCEPT !.op = "Audit", !.pre = World], "check", "done")
     IN IF packages = {} \/ ~confirmed
        THEN /\ run' = [run EXCEPT ![p] = l]
             /\ UNCHANGED packages
        ELSE /\ run' = [run EXCEPT ![p] = Pass(l, "fix", "done")]
             /\ packages' = {}
  /\ UNCHANGED <<files, links, dirs, env>>

\* one run of the script: list the broken rows, stop when there are none or
\* the user declines, else delete them
ClearBroken(p, confirmed) ==
  /\ Enter(p)
  /\ LET broken == BrokenPackages(packages)
         l == Pass([Idle EXCEPT !.op = "Audit", !.pre = World], "check", "done")
     IN IF broken = {} \/ ~confirmed
        THEN /\ run' = [run EXCEPT ![p] = l]
             /\ UNCHANGED packages
        ELSE /\ run' = [run EXCEPT ![p] = Pass(l, "fix", "done")]
             /\ packages' = packages \ DeletedPackages(packages)
  /\ UNCHANGED <<files, links, dirs, env>>

(***************************************************************************)
(* Properties                                                              *)
(***************************************************************************)
\* the invocation of process p has returned from operation op
Returned(p, op) == run[p].op = op /\ run[p].pc = "done"

\* the rows of (owner, repo) in the resources w
Stored(w, owner, repo) == GetPackage(w.packages, owner, repo)

\* a file or a symlink is at path in the resources w
PathExists(w, path) == path \in w.files \/ \E k \in w.links : k.path = path

\* Install was called with owner/repo for which no record was stored
AbsentAtEntry(l) ==
  /\ l.op = "Install"
  /\ Len(Parts[l.repoName]) = 2
  /\ Stored(l.pre, l.owner, l.repo) = {}

\* the invocation was called for a package that had a record
InstalledAtEntry(l) == Stored(l.pre, l.owner, l.repo) # {}

\* the four steps of Install that change something
InstallSteps == {"download", "chmod", "symlink", "insert"}

\* the command symlink of repo: {symlink-dir}/{repo}, {repo}.exe on windows
CommandSymlink(repo) ==
  DirBin \o "/" \o repo \o (IF plat.OS = "windows" THEN ".exe" ELSE "")

\* the name ends in .exe, in any letter case
EndsInExe(name) == HasSuffix(ToLower(name), ".exe")

\* C1 as stated: an Install on an Absent package returns success if and only
\* if download, chmod, symlink creation and insert all succeeded; when one of
\* them fails it returns an error, and after an error no record is stored.
C1_InstallSucceedsIffStepsSucceed ==
  \A p \in Procs :
    LET l == run[p] IN
    (Returned(p, "Install") /\ AbsentAtEntry(l)) =>
      /\ (l.err = "") <=> (InstallSteps \subseteq l.ok)
      /\ (InstallSteps \cap l.bad # {}) => l.err # ""
      /\ l.err # "" => Stored(World, l.owner, l.repo) = {}

\* C1 amended: a real (not dry-run) Install on an Absent package returns
\* success if and only if download, chmod, symlink creation and insert all
\* succeeded; when one of them fails it returns an error, and after an error
\* no record is stored for the package.
C1_RealInstallSucceedsIffStepsSucceed ==
  \A p \in Procs :
    LET l == run[p] IN
    (Returned(p, "Install") /\ AbsentAtEntry(l) /\ ~l.opts.DryRun) =>
      /\ (l.err = "") <=> (InstallSteps \subseteq l.ok)
      /\ (InstallSteps \cap l.bad # {}) => l.err # ""
      /\ l.err # "" => Stored(World, l.owner, l.repo) = {}

\* a real Install on an Absent package has returned after chmod failed on the
\* binary it had downloaded
C1_Witness ==
  \E p \in Procs :
    LET l == run[p] IN
    /\ Returned(p, "Install") /\ AbsentAtEntry(l) /\ ~l.opts.DryRun
    /\ "download" \in l.ok /\ "chmod" \in l.bad

C3_RemoveDeletesRecordLast ==
  \A p \in Procs :
    LET l == run[p] IN
    (l.op = "Remove" /\ InstalledAtEntry(l)) =>
      /\ l.pc \in {"r_link", "r_binary", "r_record"} =>
           Stored(World, l.owner, l.repo) # {}
      /\ "rmbinary" \in l.ok \cup l.bad => "rmlink" \in l.ok
      /\ "delete" \in l.ok \cup l.bad => "rmbinary" \in l.ok
      /\ Stored(World, l.owner, l.repo) = {} =>
           {"rmlink", "rmbinary", "delete"} \subseteq l.ok

\* a Remove has deleted the symlink and the binary that were there when it
\* began, and the record is still stored
C3_Witness ==
  \E p \in Procs :
    LET l == run[p] IN
    /\ l.op = "Remove" /\ InstalledAtEntry(l) /\ l.pc = "r_record"
    /\ PathExists(l.pre, CommandSymlink(l.repo)) /\ ~Exists(CommandSymlink(l.repo))
    /\ BinaryPath(l.binaryName) \in l.pre.files
    /\ BinaryPath(l.binaryName) \notin files
    /\ Stored(World, l.owner, l.repo) # {}

\* C4 as stated: while a real Update of a package whose command symlink was
\* there when it began runs, the command symlink is there in every
\* intermediate state.
C4_UpdateNeverWithoutSymlink ==
  \A p \in Procs :
    LET l == run[p] IN
    (l.op = "Update" /\ l.pc \notin {"idle", "done"}
       /\ PathExists(l.pre, CommandSymlink(l.repo))) =>
      Exists(CommandSymlink(l.repo))

\* a real Update of a package whose command symlink is in place has
\* downloaded the new binary and is about to replace the symlink
C4_Witness ==
  \E p \in Procs :
    LET l == run[p] IN
    /\ l.op = "Update" /\ l.pc = "u_rmlink"
    /\ PathExists(l.pre, CommandSymlink(l.repo))
    /\ Exists(CommandSymlink(l.repo))
    /\ BinaryPath(l.binaryName) \in files

\* C5 as stated: when the insert of an Install fails, the symlink and then the
\* binary are deleted, the error returned is the insert error, and afterwards
\* neither the symlink, the binary nor a record exists.
C5_InsertFailureLeavesNothing ==
  \A p \in Procs :
    LET l == run[p] IN
    (l.op = "Install" /\ "insert" \in l.bad) =>
      /\ l.err = "failed to add package to database"
      /\ Stored(World, l.owner, l.repo) = {}
      /\ l.pc = "cleanup" =>
           l.undo \in { <<CommandSymlink(l.repo), BinaryPath(l.binaryName)>>,
                        <<BinaryPath(l.binaryName)>> }
      /\ l.pc = "done" =>
           /\ ~Exists(CommandSymlink(l.repo))
           /\ BinaryPath(l.binaryName) \notin files

\* C5 amended: when the insert of an Install fails, the deletion of the
\* symlink and then of the binary is attempted, the error returned is the
\* insert error, and afterwards no record exists; the symlink and the binary
\* are gone when neither deletion failed.
C5_InsertFailureIsCompensated ==
  \A p \in Procs :
    LET l == run[p] IN
    (l.op = "Install" /\ "insert" \in l.bad) =>
      /\ l.err = "failed to add package to database"
      /\ Stored(World, l.owner, l.repo) = {}
      /\ l.pc = "cleanup" =>
           l.undo \in { <<CommandSymlink(l.repo), BinaryPath(l.binaryName)>>,
                        <<BinaryPath(l.binaryName)>> }
      /\ (l.pc = "done" /\ "cleanup" \notin l.bad) =>
           /\ ~Exists(CommandSymlink(l.repo))
           /\ BinaryPath(l.binaryName) \notin files

\* an Install whose insert failed has returned after deleting the symlink and
\* the binary it had created
C5_Witness ==
  \E p \in Procs :
    LET l == run[p] IN
    /\ Returned(p, "Install") /\ "insert" \in l.bad /\ "cleanup" \notin l.bad
    /\ {"download", "chmod", "symlink"} \subseteq l.ok
    /\ ~Exists(CommandSymlink(l.repo))
    /\ BinaryPath(l.binaryName) \notin files

\* C6: an Update of a package whose record is frozen returns success at once,
\* whatever the options: no network call, and the store, the binaries, the
\* symlinks and the directories are as they were.
C6_FrozenUpdateDoesNothing ==
  \A p \in Procs :
    LET l == run[p] IN
    (l.op = "Update" /\ \E r \in Stored(l.pre, l.owner, l.repo) : r.Frozen) =>
      /\ l.pc = "done"
      /\ l.err = ""
      /\ l.net = 0
      /\ World = l.pre

\* a real Update has returned for a frozen package whose binary is in place
C6_Witness ==
  \E p \in Procs :
    LET l == run[p] IN
    /\ Returned(p, "Update") /\ ~l.opts.DryRun
    /\ \E r \in Stored(World, l.owner, l.repo) :
         r.Frozen /\ BinaryPath(r.Binary) \in files

\* C7: an Update of a package that is not frozen, when the latest release
\* carries the stored version, returns success after the release lookup
\* alone: nothing is downloaded, and the store (UpdatedAt included), the
\* binaries and the symlinks are as they were.
C7_UpdateAtLatestChangesNothing ==
  \A p \in Procs :
    LET l == run[p] IN
    (l.op = "Update" /\ "release" \in l.ok
       /\ \E r \in Stored(l.pre, l.owner, l.repo) :
            ~r.Frozen /\ r.Version = l.tag) =>
      /\ l.pc = "done"
      /\ l.err = ""
      /\ l.net = 1
      /\ "download" \notin l.ok \cup l.bad
      /\ World = l.pre

\* a real Update has found the stored version to be the latest
C7_Witness ==
  \E p \in Procs :
    LET l == run[p] IN
    /\ Returned(p, "Update") /\ "release" \in l.ok
    /\ \E r \in Stored(World, l.owner, l.repo) :
         ~r.Frozen /\ r.Version = l.tag /\ r.UpdatedAt = r.InstalledAt

\* what C8 says of a Remove of a package that had a record: it fails only
\* when the deletion of a file that was there, or of the record, fails
RemoveFailsOnlyOnWhatExists(l) ==
  InstalledAtEntry(l) =>
    \/ l.err = ""
    \/ "rmlink" \in l.bad /\ PathExists(l.pre, CommandSymlink(l.repo))
    \/ "rmbinary" \in l.bad /\ BinaryPath(l.binaryName) \in l.pre.files
    \/ "delete" \in l.bad

C10_InstallPostcondition ==
  \A p \in Procs :
    LET l == run[p]
        name == l.owner \o "-" \o l.repo \o "-" \o l.tag
                  \o (IF EndsInExe(l.asset) THEN ".exe" ELSE "")
        binary == DirBinActual \o "/" \o name
    IN (Returned(p, "Install") /\ AbsentAtEntry(l) /\ ~l.opts.DryRun
          /\ l.err = "") =>
         /\ l.tag \in Tags
         /\ binary \in files
         /\ { k \in links : k.path = CommandSymlink(l.repo) } =
              { [path |-> CommandSymlink(l.repo), target |-> binary] }
         /\ Cardinality(Stored(World, l.owner, l.repo)) = 1
         /\ \A r \in Stored(World, l.owner, l.repo) :
              /\ r.Version = l.tag
              /\ r.Binary = name
              /\ r.Frozen = l.opts.Freeze

\* a real Install with the Freeze option has succeeded with an asset whose
\* name ends in .EXE
C10_Witness ==
  \E p \in Procs :
    LET l == run[p] IN
    /\ Returned(p, "Install") /\ AbsentAtEntry(l) /\ ~l.opts.DryRun /\ l.err = ""
    /\ l.opts.Freeze
    /\ EndsInExe(l.asset) /\ ~HasSuffix(l.asset, ".exe")

\* a real Update of a package that is not frozen has returned success after
\* the release lookup found a tag other than the stored version
UpdatedToNewTag(l) ==
  /\ l.op = "Update" /\ l.pc = "done" /\ ~l.opts.DryRun /\ l.err = ""
  /\ \E r \in Stored(l.pre, l.owner, l.repo) : ~r.Frozen /\ r.Version # l.tag

\* what C11 says of the new binary, the symlink and the record after such an
\* Update, the previous binary left aside
UpdatePostcondition(l) ==
  LET name == l.owner \o "-" \o l.repo \o "-" \o l.tag
                \o (IF EndsInExe(l.asset) THEN ".exe" ELSE "")
      binary == DirBinActual \o "/" \o name
  IN /\ l.tag \in Tags
     /\ binary \in files
     /\ { k \in links : k.path = CommandSymlink(l.repo) } =
          { [path |-> CommandSymlink(l.repo), target |-> binary] }
     /\ Cardinality(Stored(World, l.owner, l.repo)) = 1
     /\ \A r \in Stored(World, l.owner, l.repo) :
          \A r0 \in Stored(l.pre, l.owner, l.repo) :
            /\ r.Version = l.tag
            /\ r.Binary = name
            /\ r.Platform = plat.OS \o "-" \o plat.Arch
            /\ r.Frozen = r0.Frozen
            /\ r.InstalledAt = r0.InstalledAt

\* C11 as stated: after a successful real Update from version V to another
\* tag T the new binary exists, the command symlink points to it, the record
\* has version T, the new binary name and the platform, its frozen flag and
\* InstalledAt are those of before, and the previous binary has been removed.
C11_UpdateRemovesPreviousBinary ==
  \A p \in Procs :
    LET l == run[p] IN
    UpdatedToNewTag(l) =>
      /\ UpdatePostcondition(l)
      /\ \A r0 \in Stored(l.pre, l.owner, l.repo) :
           BinaryPath(r0.Binary) \notin files

\* C11 amended: the same, the previous binary being removed unless its
\* deletion failed.
C11_UpdatePostcondition ==
  \A p \in Procs :
    LET l == run[p] IN
    UpdatedToNewTag(l) =>
      /\ UpdatePostcondition(l)
      /\ "rmold" \notin l.bad =>
           \A r0 \in Stored(l.pre, l.owner, l.repo) :
             BinaryPath(r0.Binary) \notin files

\* a real Update to a new tag has succeeded and has removed the previous
\* binary, which was there when it began
C11_Witness ==
  \E p \in Procs :
    LET l == run[p] IN
    /\ UpdatedToNewTag(l)
    /\ \E r0 \in Stored(l.pre, l.owner, l.repo) :
         /\ BinaryPath(r0.Binary) \in l.pre.files
         /\ BinaryPath(r0.Binary) \notin files
    /\ BinaryPath(l.binaryName) \in files

\* a real Remove of a package that had a record has returned success
RemovedInstalled(l) ==
  /\ l.op = "Remove" /\ l.pc = "done" /\ ~l.opts.DryRun /\ l.err = ""
  /\ l.pkg \in l.pre.packages

\* the symlink, the binary and the record of the removed package are gone
RemovedIsAbsent(l) ==
  /\ ~PathExists(World, CommandSymlink(l.repo))
  /\ ~PathExists(World, BinaryPath(l.pkg.Binary))
  /\ Stored(World, l.owner, l.repo) = {}

\* the record r, its binary file and its command symlink are as they were
\* when the invocation l began
Untouched(l, r) ==
  /\ r \in packages
  /\ BinaryPath(r.Binary) \in l.pre.files <=> BinaryPath(r.Binary) \in files
  /\ { k \in l.pre.links : k.path = CommandSymlink(r.Repo) } =
       { k \in links : k.path = CommandSymlink(r.Repo) }

\* C12: after a successful real Remove of an installed package its symlink,
\* its binary and its record are all absent, and the symlink, the binary and
\* the record of every other installed package are unchanged.
C12_RemoveTouchesOnlyItsPackage ==
  \A p \in Procs :
    LET l == run[p] IN
    RemovedInstalled(l) =>
      /\ RemovedIsAbsent(l)
      /\ \A r \in l.pre.packages \ {l.pkg} : Untouched(l, r)

\* a real Remove of one of two installed packages has returned success and
\* the record of the other package is still stored
C12_Witness ==
  \E p \in Procs :
    LET l == run[p] IN
    /\ RemovedInstalled(l)
    /\ BinaryPath(l.pkg.Binary) \in l.pre.files
    /\ \E r \in l.pre.packages \ {l.pkg} :
         /\ r \in packages
         /\ BinaryPath(r.Binary) \in l.pre.files

\* C13: when the deletion of the binary fails during Remove for a reason other
\* than the file being missing, Remove returns an error at once and the record
\* is not deleted: the store is as it was when Remove began.
C13_BinaryFailureKeepsRecord ==
  \A p \in Procs :
    LET l == run[p] IN
    (l.op = "Remove" /\ "rmbinary" \in l.bad) =>
      /\ l.pc = "done"
      /\ l.err = "failed to remove binary"
      /\ "delete" \notin l.ok \cup l.bad
      /\ Stored(World, l.owner, l.repo) = Stored(l.pre, l.owner, l.repo)
      /\ packages = l.pre.packages

\* a Remove of a package with a record has removed the symlink, has failed to
\* delete the binary that is there, and has returned
C13_Witness ==
  \E p \in Procs :
    LET l == run[p] IN
    /\ Returned(p, "Remove") /\ l.pkg \in l.pre.packages
    /\ "rmlink" \in l.ok /\ "rmbinary" \in l.bad
    /\ BinaryPath(l.pkg.Binary) \in files
    /\ ~PathExists(World, CommandSymlink(l.repo))
    /\ l.pkg \in packages

\* what one step may do to the rows of owner/repo: create them as the last
\* step of an Install that returns nil, change them in an Update that then
\* returns nil, delete them as the last step of a Remove that returns nil
RecordStep(owner, repo) ==
  LET before == GetPackage(packages, owner, repo)
      after == GetPackage(packages', owner, repo)
      Of(p, op) == /\ run[p].op = op /\ run'[p].op = op
                   /\ run[p].owner = owner /\ run[p].repo = repo
                   /\ run[p].pc # "done"
      Success(p) == run'[p].pc = "done" /\ run'[p].err = ""
  IN before # after =>
       \/ /\ before = {}
          /\ \E p \in Procs : Of(p, "Install") /\ Success(p)
       \/ /\ before # {} /\ after # {}
          /\ \E p \in Procs : Of(p, "Update") /\ run'[p].pc = "u_rmold"
       \/ /\ after = {}
          /\ \E p \in Procs : Of(p, "Remove") /\ Success(p)

\* an Update that has written the record returns nil
UpdateStoredReturnsNil ==
  \A p \in Procs :
    (run[p].op = "Update" /\ run[p].pc = "u_rmold" /\ run'[p] # run[p]) =>
      /\ run'[p].op = "Update" /\ run'[p].pc = "done" /\ run'[p].err = ""
      /\ packages' = packages

\* C14: over any sequence of Install, Update, Remove and Integrity Auditor
\* runs a record comes into existence only as the last step of a successful
\* Install, its fields change only through a successful Update, and it is
\* deleted only by Remove.
C14_RecordLifecycle ==
  [][ /\ \A r \in UNION Universes : RecordStep(Parts[r][1], Parts[r][2])
      /\ \A r \in packages' : \E a \in UNION Universes :
           r.Owner = Parts[a][1] /\ r.Repo = Parts[a][2]
      /\ UpdateStoredReturnsNil ]_vars

\* the Auditor has run over a store that holds a record an Install created
\* and an Update changed, and the record is still there
C14_Witness ==
  \E p \in Procs :
    LET l == run[p] IN
    /\ l.op = "Audit" /\ l.pc = "done" /\ "check" \in l.ok
    /\ \E r \in l.pre.packages : r.UpdatedAt > r.InstalledAt /\ r \in packages

(***************************************************************************)
(* The tool run by one process at a time                                   *)
(***************************************************************************)
Next ==
  \E p \in SeqProcs :
    \/ \E r \in repos \cup BadArgs, o \in Options : InstallBegin(p, r, o)
    \/ InstallRelease(p)
    \/ InstallEnsureDirs(p)
    \/ InstallDownload(p)
    \/ InstallChmod(p)
    \/ InstallSymlink(p)
    \/ InstallAdd(p)
    \/ \E pkg \in packages, o \in UpdateOptions : UpdateBegin(p, pkg, o)
    \/ UpdateRelease(p)
    \/ UpdateEnsureDirs(p)
    \/ UpdateDownload(p)
    \/ UpdateChmod(p)
    \/ UpdateRemoveSymlink(p)
    \/ UpdateSymlink(p)
    \/ UpdateStore(p)
    \/ UpdateRemoveOld(p)
    \/ \E pkg \in packages \cup StalePackages, o \in RemoveOptions : RemoveBegin(p, pkg, o)
    \/ RemoveSymlink(p)
    \/ RemoveBinary(p)
    \/ RemoveRecord(p)
    \/ \E confirmed \in BOOLEAN : ClearBroken(p, confirmed)
    \/ Cleanup(p)

Spec == Init /\ [][Next]_vars

(***************************************************************************)
(* The store called directly, as its tests call it                         *)
(***************************************************************************)
\* a variant of Initialize that creates the table anew
InitializeAnew(tbl) == [ok |-> TRUE, tbl |-> {}]

\* CREATE TABLE IF NOT EXISTS packages, on a database that has the table
Initialize(tbl) == [ok |-> TRUE, tbl |-> tbl]

\* the time a caller has put in the struct it passes
CallerTime == 9

\* the Package structs the callers pass for the keys of each universe
PackageArgs ==
  [ u \in Universes |->
      { [Package(Parts[r][1], Parts[r][2], t, BinaryName(Parts[r][1], Parts[r][2], t, ""),
                 f, "linux-amd64")
           EXCEPT !.InstalledAt = CallerTime, !.UpdatedAt = CallerTime] :
          r \in u, t \in Tags, f \in BOOLEAN } ]

\* the record of a call that has returned: its argument, its error, the row
\* it returned or the struct it filled in
Call(op, pkg, e, marks) ==
  [Idle EXCEPT !.op = op, !.pc = "done", !.pkg = pkg, !.owner = pkg.Owner,
               !.repo = pkg.Repo, !.err = e, !.pre = World, !.ok = marks]

\* the database is opened and Initialize has been called once
StoreInit ==
  /\ packages = {}
  /\ files = {}
  /\ links = {}
  /\ dirs = {}
  /\ clock = 1
  /\ ops = 0
  /\ plat = [OS |-> "linux", Arch |-> "amd64"]
  /\ repos \in Universes
  /\ run = [p \in Procs |-> Idle]

CallInitialize(p) ==
  /\ Enter(p)
  /\ LET res == Initialize(packages)
     IN /\ packages' = res.tbl
        /\ run' = [run EXCEPT ![p] =
             Call("Initialize", NoPackage,
                  IF res.ok THEN "" ELSE "failed to create packages table", {})]
  /\ UNCHANGED <<files, links, dirs, clock, plat, repos>>

\* on success the struct of the caller gets the two times of the row
CallAddPackage(p, pkg) ==
  /\ Enter(p)
  /\ LET res == AddPackage(packages, pkg, clock)
     IN IF res.ok
        THEN /\ packages' = res.tbl
             /\ clock' = clock + 1
             /\ run' = [run EXCEPT ![p] =
                  Call("AddPackage",
                       [pkg EXCEPT !.InstalledAt = clock, !.UpdatedAt = clock],
                       "", {"insert"})]
        ELSE /\ run' = [run EXCEPT ![p] =
                  Call("AddPackage", pkg, "failed to insert package", {})]
             /\ UNCHANGED <<packages, clock>>
  /\ UNCHANGED <<files, links, dirs, plat, repos>>

\* the row found, or nil with a nil error
CallGetPackage(p, owner, repo) ==
  /\ Enter(p)
  /\ LET rows == GetPackage(packages, owner, repo)
         key == [NoPackage EXCEPT !.Owner = owner, !.Repo = repo]
     IN run' = [run EXCEPT ![p] =
          IF rows = {}
          THEN [Call("GetPackage", key, "", {}) EXCEPT !.pkg = NoPackage]
          ELSE [Call("GetPackage", key, "", {"found"})
                  EXCEPT !.pkg = CHOOSE r \in rows : TRUE]]
  /\ UNCHANGED <<world, env>>

\* on success the struct of the caller gets the new UpdatedAt
CallUpdatePackage(p, pkg) ==
  /\ Enter(p)
  /\ LET res == UpdatePackage(packages, pkg, clock)
     IN IF res.ok
        THEN /\ packages' = res.tbl
             /\ clock' = clock + 1
             /\ run' = [run EXCEPT ![p] =
                  Call("UpdatePackage", [pkg EXCEPT !.UpdatedAt = clock], "",
                       {"update"})]
        ELSE /\ run' = [run EXCEPT ![p] =
                  Call("UpdatePackage", pkg, "package not found", {})]
             /\ UNCHANGED <<packages, clock>>
  /\ UNCHANGED <<files, links, dirs, plat, repos>>

CallDeletePackage(p, owner, repo) ==
  /\ Enter(p)
  /\ LET res == DeletePackage(packages, owner, repo)
         key == [NoPackage EXCEPT !.Owner = owner, !.Repo = repo]
     IN /\ packages' = res.tbl
        /\ run' = [run EXCEPT ![p] =
             IF res.ok THEN Call("DeletePackage", key, "", {"delete"})
             ELSE Call("DeletePackage", key, "package not found", {})]
  /\ UNCHANGED <<files, links, dirs, clock, plat, repos>>

StoreNext ==
  \E p \in SeqProcs :
    \/ CallInitialize(p)
    \/ \E pkg \in PackageArgs[repos] : CallAddPackage(p, pkg)
    \/ \E r \in repos : CallGetPackage(p, Parts[r][1], Parts[r][2])
    \/ \E pkg \in PackageArgs[repos] : CallUpdatePackage(p, pkg)
    \/ \E r \in repos : CallDeletePackage(p, Parts[r][1], Parts[r][2])

StoreSpec == StoreInit /\ [][StoreNext]_vars

(***************************************************************************)
(* Properties of the store                                                 *)
(***************************************************************************)
\* the call of process p has returned from the store operation op
Called(p, op) == run[p].op = op /\ run[p].pc = "done"

\* C15: AddPackage for a key that has a record returns an error and leaves
\* that record, and the whole store, as it was; after any sequence of store
\* operations the store holds at most one record for each (owner, repo).
C15_AddPackageKeepsKeysUnique ==
  /\ \A p \in Procs :
       LET l == run[p] IN
       (Called(p, "AddPackage") /\ Stored(l.pre, l.owner, l.repo) # {}) =>
         /\ l.err # ""
         /\ Stored(World, l.owner, l.repo) = Stored(l.pre, l.owner, l.repo)
         /\ packages = l.pre.packages
  /\ \A r1, r2 \in packages :
       (r1.Owner = r2.Owner /\ r1.Repo = r2.Repo) => r1 = r2

\* AddPackage has been called with a struct that differs from the record its
\* key has, and the store holds a record for each of two keys
C15_Witness ==
  \E p \in Procs :
    LET l == run[p] IN
    /\ Called(p, "AddPackage") /\ l.err # ""
    /\ \E r \in Stored(l.pre, l.owner, l.repo) :
         r.Version # l.pkg.Version /\ r.Frozen # l.pkg.Frozen
    /\ Cardinality(packages) = 2

\* C16: for a key that has no record GetPackage returns nil with a nil error,
\* UpdatePackage returns an error and DeletePackage returns an error, and none
\* of the three changes the store; after a DeletePackage that succeeded,
\* GetPackage for the key finds nothing.
C16_MissingKey ==
  \A p \in Procs :
    LET l == run[p] IN
    /\ (Called(p, "GetPackage") /\ Stored(l.pre, l.owner, l.repo) = {}) =>
         l.err = "" /\ "found" \notin l.ok /\ l.pkg = NoPackage
           /\ packages = l.pre.packages
    /\ (Called(p, "UpdatePackage") /\ Stored(l.pre, l.owner, l.repo) = {}) =>
         l.err # "" /\ packages = l.pre.packages
    /\ (Called(p, "DeletePackage") /\ Stored(l.pre, l.owner, l.repo) = {}) =>
         l.err # "" /\ packages = l.pre.packages
    /\ (Called(p, "DeletePackage") /\ l.err = "") =>
         GetPackage(packages, l.owner, l.repo) = {}

\* DeletePackage has returned an error for a key that has no record, while
\* the store holds a record of the other key, one that has been updated
C16_Witness ==
  \E p \in Procs :
    LET l == run[p] IN
    /\ Called(p, "DeletePackage") /\ l.err # ""
    /\ Stored(l.pre, l.owner, l.repo) = {}
    /\ \E r \in packages : r.UpdatedAt > r.InstalledAt

\* the fields of a Package that the caller sets
SameContent(r, pkg) ==
  /\ r.Owner = pkg.Owner /\ r.Repo = pkg.Repo /\ r.Version = pkg.Version
  /\ r.Binary = pkg.Binary /\ r.Frozen = pkg.Frozen /\ r.Platform = pkg.Platform

\* C17: for a struct whose key has no record, AddPackage succeeds and a
\* GetPackage that follows returns one record with the owner, repo, version,
\* binary, frozen flag and platform of the struct; InstalledAt and UpdatedAt
\* are the time the store read, not the times of the struct, and are equal.
C17_AddThenGet ==
  \A p \in Procs :
    LET l == run[p] IN
    /\ (Called(p, "AddPackage") /\ Stored(l.pre, l.owner, l.repo) = {}) =>
         /\ l.err = ""
         /\ Cardinality(GetPackage(packages, l.owner, l.repo)) = 1
         /\ \A r \in GetPackage(packages, l.owner, l.repo) :
              /\ SameContent(r, l.pkg)
              /\ r.InstalledAt = r.UpdatedAt
              /\ r.InstalledAt = clock - 1
              /\ r.InstalledAt # CallerTime
    /\ (Called(p, "GetPackage") /\ Stored(l.pre, l.owner, l.repo) # {}) =>
         "found" \in l.ok /\ l.err = "" /\ Stored(l.pre, l.owner, l.repo) = {l.pkg}

\* AddPackage has stored a frozen package at v2 beside the record of the
\* other key, and GetPackage finds it
C17_Witness ==
  \E p \in Procs :
    LET l == run[p] IN
    /\ Called(p, "AddPackage") /\ l.err = ""
    /\ l.pre.packages # {}
    /\ \E r \in GetPackage(packages, l.owner, l.repo) :
         r.Frozen /\ r.Version = "v2" /\ SameContent(r, l.pkg)

C19_InitializeIdempotent ==
  \A p \in Procs :
    LET l == run[p] IN
    Called(p, "Initialize") =>
      /\ l.err = ""
      /\ packages = l.pre.packages

\* Initialize has returned on a store that held a record of each key
C19_Witness ==
  \E p \in Procs :
    LET l == run[p] IN
    /\ Called(p, "Initialize")
    /\ Cardinality(l.pre.packages) = 2
    /\ Cardinality(packages) = 2

(***************************************************************************)
(* SelectAsset called directly                                             *)
(***************************************************************************)
\* the platforms SelectAsset is called on
Platforms ==
  { [OS |-> "linux", Arch |-> "amd64"], [OS |-> "linux", Arch |-> "arm64"],
    [OS |-> "linux", Arch |-> "arm"], [OS |-> "windows", Arch |-> "amd64"],
    [OS |-> "darwin", Arch |-> "arm64"] }

\* the asset names a release is made of
AssetNames ==
  { "app-linux-amd64", "app-linux-arm64", "app-linux-arm", "app-linux-armv7",
    "App-Linux-amd64-src.tar.gz", "app-gnu-amd64", "app-windows-amd64.exe",
    "app.exe", "app-macos-arm64", "app-macos-x86_64", "readme.txt" }

\* the lists of three names of TestSelectAsset and TestSelectAssetEdgeCases
TestLists ==
  { <<"app-windows-amd64.exe", "app-linux-amd64", "app-darwin-amd64">>,
    <<"app-macos-universal", "app-macos-x86_64", "app-macos-arm64">>,
    <<"app-linux-armv7", "app-linux-armv6", "app-linux-arm">> }

\* the longest list of assets, the lists of the tests aside
MaxAssets == 2

\* release.Assets: the lists of distinct names, the empty list among them,
\* and the lists of the tests
AssetArgs ==
  { a \in UNION { [1..n -> AssetNames] : n \in 0..MaxAssets } :
      \A i, j \in 1..Len(a) : a[i] = a[j] => i = j }
  \cup TestLists

\* SelectAsset on the platforms and the lists above
Select == [ p \in Platforms, a \in AssetArgs |-> SelectAsset(p, a) ]

\* a platform and a list of assets are given, the same to every caller
SelectInit ==
  /\ packages = {}
  /\ files = {}
  /\ links = {}
  /\ dirs = {}
  /\ clock = 1
  /\ ops = 0
  /\ plat \in Platforms
  /\ repos = {}
  /\ \E a \in AssetArgs : run = [p \in Procs |-> [Idle EXCEPT !.assets = a]]

\* plat.SelectAsset(release.Assets): the asset, or the error
CallSelectAsset(p) ==
  /\ run[p].pc = "idle"
  /\ LET a == run[p].assets
         i == Select[plat, a]
     IN run' = [run EXCEPT ![p] =
          IF i = 0
          THEN [@ EXCEPT !.op = "SelectAsset", !.pc = "done",
                         !.err = "no suitable asset found"]
          ELSE [@ EXCEPT !.op = "SelectAsset", !.pc = "done", !.asset = a[i]]]
  /\ UNCHANGED <<world, env, ops>>

\* matchScore(name, p) on the case-folded first name of the list, as the
\* scoring loop calls it
CallMatchScore(p) ==
  /\ run[p].pc = "idle"
  /\ run[p].assets # <<>>
  /\ run' = [run EXCEPT ![p] =
        [@ EXCEPT !.op = "matchScore", !.pc = "done",
                  !.score = matchScore(ToLower(run[p].assets[1]), plat)]]
  /\ UNCHANGED <<world, env, ops>>

SelectNext ==
  \/ \E p \in Procs : CallSelectAsset(p)
  \/ \E p \in SeqProcs : CallMatchScore(p)

SelectSpec == SelectInit /\ [][SelectNext]_vars

(***************************************************************************)
(* Properties of SelectAsset                                               *)
(***************************************************************************)
\* the positions (pattern, asset) at which a name, case-folded, contains a
\* pattern of the platform
PhaseAHits(p, assets) ==
  { h \in (1..4) \X (1..Len(assets)) :
      Contains(ToLower(assets[h[2]]), Patterns(p)[h[1]]) }

\* C20: whenever some asset name, case-folded, contains one of the patterns
\* {os}_{arch}, {os}-{arch}, {os}, {os}{arch}, SelectAsset returns the first
\* asset in list order that contains the earliest such pattern, whatever the
\* architecture; the scoring decides only when no name contains a pattern.
C20_PhaseAHasPriority ==
  \A p \in Procs :
    LET l == run[p] IN
    (Called(p, "SelectAsset") /\ PhaseAHits(plat, l.assets) # {}) =>
      /\ l.err = ""
      /\ l.asset = l.assets[FirstHit(PhaseAHits(plat, l.assets))[2]]

\* SelectAsset has returned on linux/amd64 for a list whose first name has
\* the pattern linux and whose second name has the pattern linux-amd64
C20_Witness ==
  \E p \in Procs :
    LET l == run[p] IN
    /\ Called(p, "SelectAsset") /\ plat = [OS |-> "linux", Arch |-> "amd64"]
    /\ Len(l.assets) = 2
    /\ Contains(ToLower(l.assets[2]), "linux-amd64")
    /\ ~Contains(ToLower(l.assets[1]), "linux-amd64")
    /\ Contains(ToLower(l.assets[1]), "linux")
    /\ l.asset = l.assets[1]

\* the tokens of the operating system and of the architecture of a platform
OSTokens(p) ==
  CASE p.OS = "linux" -> {"linux", "gnu"}
    [] p.OS = "darwin" -> {"darwin", "macos", "osx"}
    [] p.OS = "windows" -> {"windows", "win"}
    [] OTHER -> {}

ArchTokens(p) ==
  CASE p.Arch = "amd64" -> {"amd64", "x86_64", "64"}
    [] p.Arch = "386" -> {"386", "x86", "32"}
    [] p.Arch = "arm64" -> {"arm64", "aarch64"}
    [] p.Arch = "arm" -> {"arm"}
    [] OTHER -> {}

\* some name of the list, case-folded, carries a token of the platform
CarriesToken(p, assets) ==
  \E i \in 1..Len(assets) :
    \E t \in OSTokens(p) \cup ArchTokens(p) : Contains(ToLower(assets[i]), t)

\* what C21 says of a call that has returned, the lists without a token aside
SelectionExamples(l) ==
  /\ l.err = "" <=> l.asset # ""
  /\ l.asset # "" => \E i \in 1..Len(l.assets) : l.assets[i] = l.asset
  /\ \A q \in Procs :
       (Called(q, "SelectAsset") /\ run[q].assets = l.assets) =>
         run[q].asset = l.asset /\ run[q].err = l.err
  /\ ( /\ plat = [OS |-> "linux", Arch |-> "amd64"]
       /\ l.assets = <<"app-windows-amd64.exe", "app-linux-amd64", "app-darwin-amd64">> )
       => l.asset = "app-linux-amd64"
  /\ ( /\ plat = [OS |-> "darwin", Arch |-> "arm64"]
       /\ l.assets = <<"app-macos-universal", "app-macos-x86_64", "app-macos-arm64">> )
       => l.asset = "app-macos-arm64"

\* C21 as stated: the same platform and list yield the same result for every
\* caller and the list is not modified; the two lists of the tests yield
\* app-linux-amd64 and app-macos-arm64; a list, the empty one included, in
\* which no name carries an OS or arch token of the platform yields
\* NoSuitableAsset.
C21_NoTokenNoAsset ==
  /\ [](\A p \in Procs :
          LET l == run[p] IN
          Called(p, "SelectAsset") =>
            /\ SelectionExamples(l)
            /\ ~CarriesToken(plat, l.assets) => l.asset = "" /\ l.err # "")
  /\ [][\A p \in Procs : run'[p].assets = run[p].assets]_vars

\* C21 amended: the same, the lists without a token yielding NoSuitableAsset
\* unless, on windows, a name ends in .exe.
C21_SelectionIsAFunction ==
  /\ [](\A p \in Procs :
          LET l == run[p] IN
          Called(p, "SelectAsset") =>
            /\ SelectionExamples(l)
            /\ ( /\ ~CarriesToken(plat, l.assets)
                 /\ ~(plat.OS = "windows" /\ \E i \in 1..Len(l.assets) :
                        HasSuffix(ToLower(l.assets[i]), ".exe")) )
                 => l.asset = "" /\ l.err # "")
  /\ [][\A p \in Procs : run'[p].assets = run[p].assets]_vars

\* both callers have returned app-macos-arm64 on darwin/arm64 for the list
\* that begins with the universal binary
C21_Witness ==
  /\ plat = [OS |-> "darwin", Arch |-> "arm64"]
  /\ \A p \in Procs :
       /\ Called(p, "SelectAsset")
       /\ run[p].assets = <<"app-macos-universal", "app-macos-x86_64", "app-macos-arm64">>
       /\ run[p].asset = "app-macos-arm64"

\* the positions of the names without "armv" that contain a pattern
GenericHits(p, assets) ==
  { h \in PhaseAHits(p, assets) : ~Contains(ToLower(assets[h[2]]), "armv") }

\* C22: on the architecture arm SelectAsset returns a name containing "armv"
\* only if no name without "armv" contains a pattern; when some name without
\* "armv" contains a pattern, the first such name under the earliest such
\* pattern is returned, wherever the armv6 and armv7 names stand in the list.
C22_GenericArmFirst ==
  \A p \in Procs :
    LET l == run[p] IN
    (Called(p, "SelectAsset") /\ plat.Arch = "arm") =>
      /\ Contains(ToLower(l.asset), "armv") => GenericHits(plat, l.assets) = {}
      /\ GenericHits(plat, l.assets) # {} =>
           /\ l.err = ""
           /\ l.asset = l.assets[FirstHit(GenericHits(plat, l.assets))[2]]

\* SelectAsset has returned app-linux-arm on linux/arm for the list in which
\* it stands after app-linux-armv7 and app-linux-armv6
C22_Witness ==
  /\ plat = [OS |-> "linux", Arch |-> "arm"]
  /\ \E p \in Procs :
       /\ Called(p, "SelectAsset")
       /\ run[p].assets = <<"app-linux-armv7", "app-linux-armv6", "app-linux-arm">>
       /\ run[p].asset = "app-linux-arm"

\* the scoring is reached: no pass over the patterns has returned
FallbackReached(p, assets) == p.Arch # "arm" \/ PhaseAHits(p, assets) = {}

\* the score of the i-th name of a list
ScoreAt(p, assets, i) == matchScore(ToLower(assets[i]), p)

\* the positions of the names with the maximum score
MaxScored(p, assets) ==
  { i \in 1..Len(assets) :
      \A j \in 1..Len(assets) : ScoreAt(p, assets, j) <= ScoreAt(p, assets, i) }

\* C23: when the scoring is reached SelectAsset returns the name with the
\* maximum score, the earliest in the list among the names with that score,
\* and NoSuitableAsset when the maximum is at most 0 (or the list is empty).
C23_MaximumScoreFirstSeen ==
  \A p \in Procs :
    LET l == run[p]
        best == MaxScored(plat, l.assets)
    IN (Called(p, "SelectAsset") /\ FallbackReached(plat, l.assets)) =>
         IF best = {} \/ \A i \in best : ScoreAt(plat, l.assets, i) <= 0
         THEN l.asset = "" /\ l.err # ""
         ELSE /\ l.err = ""
              /\ \E i \in best : /\ l.asset = l.assets[i]
                                 /\ \A j \in best : i <= j

\* the scoring has returned the first of two names that share the maximum
C23_Witness ==
  \E p \in Procs :
    LET l == run[p] IN
    /\ Called(p, "SelectAsset")
    /\ FallbackReached(plat, l.assets)
    /\ MaxScored(plat, l.assets) = {1, 2}
    /\ ScoreAt(plat, l.assets, 1) > 0
    /\ l.asset = l.assets[1]

\* the sum C24 states; the term for .exe on every platform, or on windows only
StatedScore(name, p, exeAnywhere) ==
  LET has(t) == Contains(name, t)
      os == CASE p.OS = "darwin" /\ (has("darwin") \/ has("macos") \/ has("osx")) -> 10
              [] p.OS = "windows" /\ (has("windows") \/ has("win")) -> 10
              [] p.OS = "linux" /\ has("linux") -> 10
              [] p.OS = "linux" /\ ~has("linux") /\ has("gnu") -> 5
              [] OTHER -> 0
      arch == CASE p.Arch = "amd64" /\ (has("amd64") \/ has("x86_64") \/ has("64")) -> 5
                [] p.Arch = "386" /\ (has("386") \/ has("x86") \/ has("32")) -> 5
                [] p.Arch = "arm64" /\ (has("arm64") \/ has("aarch64")) -> 5
                [] p.Arch = "arm" /\ has("arm") /\ ~has("arm64") /\ ~has("armv") -> 5
                [] p.Arch = "arm" /\ has("arm") /\ ~has("arm64") /\ has("armv") -> 3
                [] OTHER -> 0
      exe == IF /\ HasSuffix(name, ".exe")
                /\ os = 0
                /\ exeAnywhere \/ p.OS = "windows"
             THEN 5 ELSE 0
      src == IF has("src") \/ has("source") THEN 10 ELSE 0
  IN os + arch + exe - src

\* the scores C24 gives as examples
ScoreExamples(l) ==
  /\ (plat.OS = "linux" /\ plat.Arch = "amd64") =>
       /\ l.assets[1] = "app-linux-amd64" => l.score = 15
       /\ l.assets[1] = "app-gnu-amd64" => l.score = 10
       /\ l.assets[1] = "App-Linux-amd64-src.tar.gz" => l.score = 5
  /\ (plat.OS = "windows" /\ l.assets[1] = "app.exe") => l.score = 5
  /\ l.assets[1] = "readme.txt" => l.score = 0

\* C24 as stated: the score of a name is the sum of the terms for the OS
\* token, the arch token, the source archives and, on every platform, +5 for a
\* name that ends in .exe when no OS token matched.
C24_ScoreWithExeAnywhere ==
  \A p \in Procs :
    LET l == run[p] IN
    Called(p, "matchScore") =>
      /\ l.score = StatedScore(ToLower(l.assets[1]), plat, TRUE)
      /\ ScoreExamples(l)

\* C24 amended: the same sum, the +5 for a name that ends in .exe given on
\* windows only.
C24_ScoreFormula ==
  \A p \in Procs :
    LET l == run[p] IN
    Called(p, "matchScore") =>
      /\ l.score = StatedScore(ToLower(l.assets[1]), plat, FALSE)
      /\ ScoreExamples(l)

\* matchScore has returned 5 on linux/amd64 for the source archive
C24_Witness ==
  /\ plat = [OS |-> "linux", Arch |-> "amd64"]
  /\ \E p \in Procs :
       /\ Called(p, "matchScore")
       /\ run[p].assets[1] = "App-Linux-amd64-src.tar.gz"
       /\ run[p].score = 5

(***************************************************************************)
(* The repository selector                                                 *)
(***************************************************************************)
\* the inputs given to SelectRepository
SelectorInputs == {"a/c", "ac", "a/b/c"}

\* the largest TotalCount a search returns
MaxMatches == 2

\* a variant of After that takes a failed search for one without matches
AfterIgnoringErrors(l, n, e, onNone, onOne, onMany) ==
  LET next == IF n <= 0 THEN onNone ELSE IF n = 1 THEN onOne ELSE onMany
  IN IF next = "r_none" THEN Finish(l, "no repositories found")
     ELSE [l EXCEPT !.pc = next]

\* a variant of After that goes on to the next search whatever was found
AfterExhaustive(l, n, e, onNone, onOne, onMany) ==
  IF n < 0 THEN Finish(l, e)
  ELSE IF onNone = "r_none"
  THEN IF n = 0 THEN Finish(l, "no repositories found")
       ELSE [l EXCEPT !.pc = "r_select"]
  ELSE [l EXCEPT !.pc = onNone]

\* where a search goes on its TotalCount; "r_none" is the return of
\* "no repositories found"
After(l, n, e, onNone, onOne, onMany) ==
  LET next == IF n = 0 THEN onNone ELSE IF n = 1 THEN onOne ELSE onMany
  IN IF n < 0 THEN Finish(l, e)
     ELSE IF next = "r_none" THEN Finish(l, "no repositories found")
     ELSE [l EXCEPT !.pc = next]

\* one call of the search client and the branch taken on the result; the
\* client fails (n = -1) or returns a TotalCount of n
Search(p, pcAt, query, e, onNone, onOne, onMany) ==
  /\ run[p].pc = pcAt
  /\ \E n \in -1..MaxMatches :
       LET l == [run[p] EXCEPT !.queries = Append(@, [q |-> query, n |-> n]),
                               !.net = @ + 1,
                               !.found = IF n < 0 THEN 0 ELSE n]
       IN run' = [run EXCEPT ![p] = After(l, n, e, onNone, onOne, onMany)]
  /\ UNCHANGED <<world, env, ops>>

\* SelectRepository is entered by a process started with or without
\* -non-interactive; searchRepositories splits the input
SelectRepositoryBegin(p, input, nonInteractive) ==
  /\ Enter(p)
  /\ LET parts == Split(input, "/")
         l == [Idle EXCEPT !.op = "SelectRepository", !.repoName = input,
                           !.opts = [NoOpts EXCEPT !.NonInteractive = nonInteractive],
                           !.pre = World]
     IN run' = [run EXCEPT ![p] =
          [l EXCEPT !.pc = IF Contains(input, "/") /\ Len(parts) = 2
                           THEN "r_exact" ELSE "r_name"]]
  /\ UNCHANGED <<world, env>>

\* "repo:owner/repo": a TotalCount of one is returned at once
SearchExact(p) ==
  LET parts == Split(run[p].repoName, "/")
  IN Search(p, "r_exact", "repo:" \o parts[1] \o "/" \o parts[2],
            "failed to search for exact match",
            "r_username", "r_select", "r_username")

\* "user:owner name in:name"
SearchUserName(p) ==
  LET parts == Split(run[p].repoName, "/")
  IN Search(p, "r_username",
            "user:" \o parts[1] \o " " \o parts[2] \o " in:name",
            "failed to search with user and name",
            "r_name", "r_select", "r_select")

\* SearchRepositoriesByName(input), when there is no result yet
SearchByName(p) ==
  Search(p, "r_name", "in:name " \o run[p].repoName \o " sort:stars-desc",
         "failed to search by name", "r_user", "r_select", "r_select")

\* SearchRepositoriesByUser(input), when there is still no result
SearchByUser(p) ==
  Search(p, "r_user", "user:" \o run[p].repoName \o " sort:stars-desc",
         "failed to search by user", "r_none", "r_select", "r_select")

\* the keys that end the list: the user quits or presses enter on an item
Keys == {"q", "enter"}

\* tea.NewProgram(m).Run() and what SelectRepository returns after it
Choose(l, ui, key, item) ==
  LET shown == [l EXCEPT !.prompted = TRUE] IN
  IF ~ui THEN Fail(shown, "ui", "failed to run UI", <<>>)
  ELSE IF key = "enter"
  THEN Finish(Pass([shown EXCEPT !.selected = item], "ui", "done"), "")
  ELSE Finish(Pass(shown, "ui", "done"), "no repository selected")

\* a variant of ReturnsAtOnce that returns a single result for every input
ReturnsAtOnceAnyInput(input, found) == found = 1

\* a variant of ReturnsAtOnce that shows the list for a single result too
ReturnsAtOnceNever(input, found) == FALSE

\* "For exact matches with a single result, return immediately"
ReturnsAtOnce(input, found) == Contains(input, "/") /\ found = 1

\* SelectRepository after searchRepositories has returned a result
SelectFromResult(p) ==
  /\ run[p].pc = "r_select"
  /\ LET l == run[p]
     IN IF ReturnsAtOnce(l.repoName, l.found)
        THEN run' = [run EXCEPT ![p] = Finish([l EXCEPT !.selected = 1], "")]
        ELSE \E ui \in BOOLEAN, key \in Keys, item \in 1..l.found :
               run' = [run EXCEPT ![p] = Choose(l, ui, key, item)]
  /\ UNCHANGED <<world, env, ops>>

SelectorNext ==
  \E p \in SeqProcs :
    \/ \E input \in SelectorInputs, nonInteractive \in BOOLEAN :
         SelectRepositoryBegin(p, input, nonInteractive)
    \/ SearchExact(p)
    \/ SearchUserName(p)
    \/ SearchByName(p)
    \/ SearchByUser(p)
    \/ SelectFromResult(p)

SelectorSpec == Init /\ [][SelectorNext]_vars

(***************************************************************************)
(* Properties of the repository selector                                   *)
(***************************************************************************)
\* the searches in their order: all four for an input of the form
\* owner/repo, the last two for every other input
Plan(input) ==
  LET parts == Split(input, "/")
      byName == "in:name " \o input \o " sort:stars-desc"
      byUser == "user:" \o input \o " sort:stars-desc"
  IN IF Len(parts) = 2
     THEN << "repo:" \o input,
             "user:" \o parts[1] \o " " \o parts[2] \o " in:name", byName, byUser >>
     ELSE << byName, byUser >>

\* the searches made so far are the first searches of the plan, and the
\* returns of SelectRepository agree with the last TotalCount
SearchesFollowPlan(p) ==
  LET l == run[p]
      Q == l.queries
      plan == Plan(l.repoName)
      last == Q[Len(Q)].n
  IN /\ Len(Q) <= Len(plan)
     /\ \A k \in 1..Len(Q) : Q[k].q = plan[k]
     /\ (l.pc = "r_select" \/ (l.pc = "done" /\ l.err = "")) =>
          /\ last > 0
          /\ l.found = last
          /\ \A k \in 1..(Len(Q) - 1) : Q[k].n # 1
     /\ (l.pc = "done" /\ Len(Q) = Len(plan) /\ last = 0) =>
          l.err = "no repositories found"
     /\ (l.pc = "done" /\ l.err = "no repositories found") =>
          Len(Q) = Len(plan) /\ last = 0

SearchErrors(input) ==
  LET tail == << "failed to search by name", "failed to search by user" >>
  IN IF Len(Split(input, "/")) = 2
     THEN << "failed to search for exact match",
             "failed to search with user and name" >> \o tail
     ELSE tail

\* C26: a search that fails is the last search of the call: SelectRepository
\* returns the error of that search, makes no further search and does not
\* show the list of repositories.
C26_SearchErrorEndsResolution ==
  \A p \in Procs :
    LET l == run[p]
        Q == l.queries
    IN l.op = "SelectRepository" =>
         \A k \in 1..Len(Q) :
           Q[k].n < 0 =>
             /\ k = Len(Q)
             /\ l.pc = "done"
             /\ l.err = SearchErrors(l.repoName)[k]
             /\ ~l.prompted
             /\ l.selected = 0

\* the third search of a call has failed after two searches without a match
C26_Witness ==
  \E p \in Procs :
    LET Q == run[p].queries IN
    /\ Returned(p, "SelectRepository")
    /\ Len(Q) = 3
    /\ Q[1].n = 0 /\ Q[2].n = 0 /\ Q[3].n < 0
    /\ run[p].err = "failed to search by name"

\* C27: for an input of the form owner/repo whose exact search returns
\* exactly one result SelectRepository returns that result at once: the exact
\* search is its only search and the list of repositories is not shown.
C27_SingleExactMatchReturned ==
  \A p \in Procs :
    LET l == run[p]
        Q == l.queries
    IN ( /\ l.op = "SelectRepository"
         /\ Q # <<>>
         /\ Q[1].q = "repo:" \o l.repoName
         /\ Q[1].n = 1 ) =>
           /\ Len(Q) = 1
           /\ l.pc \in {"r_select", "done"}
           /\ ~l.prompted
           /\ l.pc = "done" => l.err = "" /\ l.selected = 1 /\ l.found = 1

\* SelectRepository has returned the single result of the exact search
C27_Witness ==
  \E p \in Procs :
    /\ Returned(p, "SelectRepository")
    /\ run[p].repoName = "a/c"
    /\ run[p].queries = << [q |-> "repo:a/c", n |-> 1] >>
    /\ run[p].selected = 1 /\ run[p].err = ""

\* searchRepositories has returned more than one candidate
ManyCandidates(l) ==
  /\ l.op = "SelectRepository"
  /\ l.pc \in {"r_select", "done"}
  /\ l.queries # <<>>
  /\ l.queries[Len(l.queries)].n > 1

\* C28: in a process started with -non-interactive, SelectRepository fails
\* with an error when the search yields more than one candidate, and does
\* not show the list of repositories.
C28_NonInteractiveFailsOnAmbiguity ==
  \A p \in Procs :
    LET l == run[p] IN
    (ManyCandidates(l) /\ l.opts.NonInteractive) =>
      /\ ~l.prompted
      /\ l.pc = "done" => l.err # "" /\ l.selected = 0

\* in a process started with -non-interactive the list of two candidates
\* has been shown and the second has been returned
C28_Witness ==
  \E p \in Procs :
    LET l == run[p] IN
    /\ ManyCandidates(l) /\ l.opts.NonInteractive
    /\ l.pc = "done" /\ l.prompted
    /\ l.found = 2 /\ l.selected = 2 /\ l.err = ""

\* the list was shown and the user left it without a choice
UserCancelled(l) ==
  /\ l.op = "SelectRepository" /\ l.pc = "done"
  /\ l.prompted /\ "ui" \in l.ok /\ l.selected = 0

\* C29: when the user leaves the list of repositories without a choice,
\* SelectRepository returns no error and nothing of the packages, the
\* binaries and the symlinks has changed.
C29_CancelIsNoError ==
  \A p \in Procs :
    LET l == run[p] IN
    UserCancelled(l) => l.err = "" /\ World = l.pre

\* the user has left the list and SelectRepository has returned the error
\* "no repository selected"
C29_Witness ==
  \E p \in Procs :
    LET l == run[p] IN
    /\ UserCancelled(l)
    /\ l.err = "no repository selected"
    /\ World = l.pre

(***************************************************************************)
(* gaap update: every installed package in turn                            *)
(***************************************************************************)
\* the characters of the names in the order of their bytes
Bytes == "-./0123456789ABCDEFGHIJKLMNOPQRSTUVWXYZ_abcdefghijklmnopqrstuvwxyz"

ByteOf ==
  [ c \in { SubSeq(Bytes, i, i) : i \in 1..Len(Bytes) } |->
      CHOOSE i \in 1..Len(Bytes) : SubSeq(Bytes, i, i) = c ]

\* s < t byte by byte, the comparison of the column collation
RECURSIVE StrLess(_, _)
StrLess(s, t) ==
  IF Len(t) = 0 THEN FALSE
  ELSE IF Len(s) = 0 THEN TRUE
  ELSE LET a == ByteOf[SubSeq(s, 1, 1)]
           b == ByteOf[SubSeq(t, 1, 1)]
       IN IF a # b THEN a < b
          ELSE StrLess(SubSeq(s, 2, Len(s)), SubSeq(t, 2, Len(t)))

\* a variant of Before that orders the rows by "owner/repo" as one string
BeforeByFullName(r, o) ==
  StrLess(r.Owner \o "/" \o r.Repo, o.Owner \o "/" \o o.Repo)

\* ORDER BY owner, repo
Before(r, o) ==
  StrLess(r.Owner, o.Owner) \/ (r.Owner = o.Owner /\ StrLess(r.Repo, o.Repo))

\* the rows of the table in the order of the query
RECURSIVE ListPackages(_)
ListPackages(tbl) ==
  IF tbl = {} THEN <<>>
  ELSE LET first == CHOOSE r \in tbl : \A o \in tbl \ {r} : Before(r, o)
       IN <<first>> \o ListPackages(tbl \ {first})

\* what the loop has done with a package
Outcome(pkg, did, e) ==
  [owner |-> pkg.Owner, repo |-> pkg.Repo, frozen |-> pkg.Frozen,
   did |-> did, err |-> e]

\* the local variables of handleUpdate
Driver(opts, todo, log) ==
  [Idle EXCEPT !.op = "handleUpdate", !.pc = "h_loop", !.opts = opts,
               !.batch = TRUE, !.todo = todo, !.log = log, !.pre = World]

\* store.ListPackages and the two returns before the loop
HandleUpdate(p, dryRun) ==
  /\ Enter(p)
  /\ ~run[p].batch
  /\ LET opts == [NoOpts EXCEPT !.DryRun = dryRun]
         l == [Driver(opts, <<>>, <<>>) EXCEPT !.batch = FALSE]
     IN \/ run' = [run EXCEPT ![p] = Fail(l, "list", "failed to list packages", <<>>)]
        \/ run' = [run EXCEPT ![p] =
             IF packages = {}
             THEN Finish(Pass(l, "list", "done"), "no packages installed")
             ELSE Pass(Driver(opts, ListPackages(packages), <<>>), "list", "h_loop")]
  /\ UNCHANGED <<world, env>>

\* one turn of the loop: the failure of the Update that has returned is
\* printed, the package that comes next is skipped when frozen and is given
\* to installer.Update otherwise; after the last package handleUpdate
\* returns nil
HandleUpdateLoop(p) ==
  /\ run[p].batch
  /\ run[p].pc \in {"h_loop", "done"}
  /\ LET l == run[p]
         log == IF l.op = "Update"
                THEN Append(l.log, Outcome(l.pkg, "updated", l.err))
                ELSE l.log
         here == Driver(l.opts, l.todo, log)
     IN run' = [run EXCEPT ![p] =
          IF l.todo = <<>>
          THEN Finish([here EXCEPT !.batch = FALSE], "")
          ELSE IF Head(l.todo).Frozen
          THEN [here EXCEPT !.todo = Tail(l.todo),
                            !.log = Append(log, Outcome(Head(l.todo), "skipped", ""))]
          ELSE [UpdateEntry(Head(l.todo), l.opts) EXCEPT
                  !.batch = TRUE, !.todo = Tail(l.todo), !.log = log]]
  /\ UNCHANGED <<world, env, ops>>

BatchNext ==
  \E p \in SeqProcs :
    \/ /\ ~run[p].batch
       /\ \E r \in repos, o \in Options : InstallBegin(p, r, o)
    \/ InstallRelease(p)
    \/ InstallEnsureDirs(p)
    \/ InstallDownload(p)
    \/ InstallChmod(p)
    \/ InstallSymlink(p)
    \/ InstallAdd(p)
    \/ \E dryRun \in BOOLEAN : HandleUpdate(p, dryRun)
    \/ HandleUpdateLoop(p)
    \/ UpdateRelease(p)
    \/ UpdateEnsureDirs(p)
    \/ UpdateDownload(p)
    \/ UpdateChmod(p)
    \/ UpdateRemoveSymlink(p)
    \/ UpdateSymlink(p)
    \/ UpdateStore(p)
    \/ UpdateRemoveOld(p)
    \/ Cleanup(p)

BatchSpec == Init /\ [][BatchNext]_vars

(***************************************************************************)
(* Properties of gaap update                                               *)
(***************************************************************************)
\* the packages of the log of the loop come in the order of (owner, repo)
InOrder(log) ==
  \A i, j \in 1..Len(log) :
    i < j => \/ StrLess(log[i].owner, log[j].owner)
             \/ log[i].owner = log[j].owner /\ StrLess(log[i].repo, log[j].repo)

\* what the loop has done so far: frozen packages skipped, the others given
\* to Update whatever the Updates before them returned
LoopSoFar(l) ==
  /\ InOrder(l.log)
  /\ \A i \in 1..Len(l.log) :
       l.log[i].did = (IF l.log[i].frozen THEN "skipped" ELSE "updated")
  /\ \A i \in 1..Len(l.log), j \in 1..Len(l.todo) :
       \/ StrLess(l.log[i].owner, l.todo[j].Owner)
       \/ l.log[i].owner = l.todo[j].Owner /\ StrLess(l.log[i].repo, l.todo[j].Repo)
  /\ (l.batch /\ l.op = "Update") =>
       /\ ~l.pkg.Frozen
       /\ \A i \in 1..Len(l.log) :
            \/ StrLess(l.log[i].owner, l.owner)
            \/ l.log[i].owner = l.owner /\ StrLess(l.log[i].repo, l.repo)

\* the return of handleUpdate
DriverReturn(l) ==
  IF "list" \in l.bad THEN l.err = "failed to list packages" /\ l.log = <<>>
  ELSE IF l.pre.packages = {}
  THEN l.err = "no packages installed" /\ l.log = <<>>
  ELSE /\ l.err = ""
       /\ { <<e.owner, e.repo>> : e \in { l.log[i] : i \in 1..Len(l.log) } }
            = { <<r.Owner, r.Repo>> : r \in packages }

\* C30: the loop of handleUpdate takes the installed packages one after
\* another in the order of (owner, repo), gives no frozen package to Update
\* and every other package to Update, whatever the Updates before it
\* returned; an Update is begun only when the one before it has returned;
\* handleUpdate returns an error only when the listing fails or no package
\* is installed.
C30_BatchUpdate ==
  /\ [](\A p \in Procs :
          /\ (run[p].batch \/ run[p].op = "handleUpdate") => LoopSoFar(run[p])
          /\ Returned(p, "handleUpdate") => DriverReturn(run[p]))
  /\ [][\A p \in Procs :
          (run[p].batch /\ run'[p].todo # run[p].todo) =>
            /\ run[p].pc \in {"h_loop", "done"}
            /\ run'[p].todo = Tail(run[p].todo)]_vars

\* handleUpdate has returned nil after two Updates, the first of which failed
C30_Witness ==
  \E p \in Procs :
    LET l == run[p] IN
    /\ Returned(p, "handleUpdate")
    /\ l.err = ""
    /\ Len(l.log) = 2
    /\ l.log[1].did = "updated" /\ l.log[1].err # ""
    /\ l.log[2].did = "updated"

(***************************************************************************)
(* The scripts on the table they were written for                          *)
(***************************************************************************)
ScriptRow(owner, repo, version, install_path, binary_name) ==
  [owner |-> owner, repo |-> repo, version |-> version,
   install_path |-> install_path, binary_name |-> binary_name, frozen |-> FALSE]

\* the rows of insert_broken_test_data.sql
BrokenTestData ==
  { ScriptRow("broken", "wrong-path", "v1.0.0", "/usr/local/bin/something", "something"),
    ScriptRow("broken", "no-binary", "v1.0.0",
              "/home/user/gaap/bin/actual/broken-no-binary-v1.0.0", ""),
    ScriptRow("broken", "bad-pattern", "v1.0.0",
              "/home/user/gaap/bin/actual/just-a-file", "bad"),
    ScriptRow("broken", "spaces-binary", "v1.0.0",
              "/home/user/gaap/bin/actual/broken-spaces-binary-v1.0.0", "   "),
    ScriptRow("broken", "multiple-issues", "v1.0.0", "/tmp/random-file", "multiple") }

\* rows as Install stores them: the binary at {root}/bin/actual/
\* {owner}-{repo}-{tag}, the name of the asset as binary_name
InstalledRows ==
  { ScriptRow("a", "c", "v1", RootDir \o "/bin/actual/a-c-v1", "app"),
    ScriptRow("b", "c", "v2", RootDir \o "/bin/actual/b-c-v2", "Tool") }

\* rows a caller of AddPackage can pass besides: a binary outside the root in
\* a directory named bin/actual, and one in the root under a bare name
OtherRows ==
  { ScriptRow("x", "y", "v1", "/opt/my-own-tools/bin/actual/tool", "tool"),
    ScriptRow("x", "z", "v1", RootDir \o "/bin/actual/tool", "tool") }

ScriptRows == BrokenTestData \cup InstalledRows \cup OtherRows

\* UNIQUE(owner, repo)
HasKey(tbl, r) == \E o \in tbl : o.owner = r.owner /\ o.repo = r.repo

\* INSERT INTO packages of one row
AddScriptRow(p, r) ==
  /\ Enter(p)
  /\ LET l == [Idle EXCEPT !.op = "AddPackage", !.owner = r.owner, !.repo = r.repo,
                           !.pre = World]
     IN IF HasKey(packages, r)
        THEN /\ run' = [run EXCEPT ![p] = Fail(l, "insert", "failed to insert package", <<>>)]
             /\ UNCHANGED packages
        ELSE /\ run' = [run EXCEPT ![p] = Finish(Pass(l, "insert", "done"), "")]
             /\ packages' = packages \cup {r}
  /\ UNCHANGED <<files, links, dirs, env>>

\* the script that adds the broken test packages: one INSERT of five rows,
\* which inserts all of them or, on a key that exists, none
InsertBrokenTestData(p) ==
  /\ Enter(p)
  /\ LET l == [Idle EXCEPT !.op = "InsertBrokenTestData", !.pre = World]
     IN IF \E r \in BrokenTestData : HasKey(packages, r)
        THEN /\ run' = [run EXCEPT ![p] = Fail(l, "insert", "UNIQUE constraint failed", <<>>)]
             /\ UNCHANGED packages
        ELSE /\ run' = [run EXCEPT ![p] = Finish(Pass(l, "insert", "done"), "")]
             /\ packages' = packages \cup BrokenTestData
  /\ UNCHANGED <<files, links, dirs, env>>

AuditNext ==
  \E p \in SeqProcs :
    \/ \E r \in ScriptRows : AddScriptRow(p, r)
    \/ InsertBrokenTestData(p)
    \/ \E confirmed \in BOOLEAN : ClearBroken(p, confirmed)

AuditSpec == Init /\ [][AuditNext]_vars

(***************************************************************************)
(* Properties of the scripts                                               *)
(***************************************************************************)
\* C31: a run of the script that stops after the check changes nothing; a
\* run that goes on to the DELETE removes exactly the rows the check has
\* listed and leaves every other row as it was, and a check run after it
\* lists no row.
C31_FixDeletesWhatCheckReports ==
  \A p \in Procs :
    LET l == run[p]
        listed == BrokenPackages(l.pre.packages)
    IN (l.op = "Audit" /\ l.pc = "done") =>
         /\ [l.pre EXCEPT !.packages = packages] = World
         /\ "fix" \notin l.ok => packages = l.pre.packages
         /\ "fix" \in l.ok =>
              /\ listed # {}
              /\ packages = l.pre.packages \ listed
              /\ BrokenPackages(packages) = {}

\* the DELETE has removed the rows listed for a broken path and for a
\* binary_name of spaces, and has left a row that Install stored
C31_Witness ==
  \E p \in Procs :
    LET l == run[p] IN
    /\ l.op = "Audit" /\ l.pc = "done" /\ "fix" \in l.ok
    /\ \E r \in l.pre.packages \ packages : r.repo = "spaces-binary"
    /\ \E r \in l.pre.packages \ packages : r.repo = "wrong-path"
    /\ \E r \in packages : r \in InstalledRows

\* the path a row should have: {root}/bin/actual/{owner}-{repo}-{version}
ConventionalPath(r) ==
  RootDir \o "/bin/actual/" \o r.owner \o "-" \o r.repo \o "-" \o r.version

\* broken as C32 describes it
DescribedAsBroken(r) ==
  LET root == RootDir \o "/bin/actual/" IN
  \/ ~(Len(r.install_path) > Len(root) /\ SubSeq(r.install_path, 1, Len(root)) = root)
  \/ r.install_path # ConventionalPath(r)
  \/ r.binary_name = ""
  \/ Trim(r.binary_name) = ""

\* C32: the check lists a row if and only if its path is not under the
\* binary store, or is not of the shape owner-repo-version, or its
\* binary_name is empty or blank; it lists each of the five rows of the
\* broken test data and no row that Install stored.
C32_CheckListsBrokenRows ==
  \A p \in Procs :
    LET l == run[p]
        listed == BrokenPackages(l.pre.packages)
    IN (l.op = "Audit" /\ l.pc = "done") =>
         \A r \in l.pre.packages :
           /\ r \in listed <=> DescribedAsBroken(r)
           /\ r \in BrokenTestData => r \in listed
           /\ r \in InstalledRows => r \notin listed

\* the DELETE has run over the broken test data and the row bad-pattern,
\* whose path ends in bin/actual/just-a-file, is still in the table
C32_Witness ==
  \E p \in Procs :
    LET l == run[p] IN
    /\ l.op = "Audit" /\ l.pc = "done" /\ "fix" \in l.ok
    /\ BrokenTestData \subseteq l.pre.packages
    /\ \E r \in packages : r.repo = "bad-pattern" /\ r \in BrokenTestData
    /\ \A r \in packages \cap BrokenTestData : r.repo = "bad-pattern"

(***************************************************************************)
(* Further properties of Install, Update and Remove                        *)
(***************************************************************************)
\* the argument does not hold exactly one "/"
Malformed(repoName) == Len(Parts[repoName]) # 2

\* C33: an Install whose argument is not exactly owner/repo returns the
\* invalid-repository-name error without having looked the store up, called
\* the network or run any step, and store, binaries, symlinks and directories
\* are as they were.
C33_MalformedArgumentRejectedFirst ==
  \A p \in Procs :
    LET l == run[p] IN
    (l.op = "Install" /\ Malformed(l.repoName)) =>
      /\ l.pc = "done" /\ l.err = "invalid repository name"
      /\ l.net = 0 /\ l.ok = {} /\ l.bad = {}
      /\ World = l.pre

\* Install of "a/b/c" has returned while a package is installed
C33_Witness ==
  \E p \in Procs :
    /\ Returned(p, "Install") /\ run[p].repoName = "a/b/c"
    /\ run[p].err = "invalid repository name"
    /\ packages # {}

\* no invocation is in progress
Quiescent == \A p \in Procs : run[p].pc \in {"idle", "done"}

\* the binary the record r names is in the binary store and the command
\* symlink of r.Repo points to it
Consistent(r) ==
  /\ BinaryPath(r.Binary) \in files
  /\ [path |-> CommandSymlink(r.Repo), target |-> BinaryPath(r.Binary)] \in links

\* C34: whenever every invocation of Install, Update and Remove made so far
\* has returned, every stored record names a binary that exists and the
\* command symlink of its repo exists and points to that binary.
C34_RecordsHaveBinaryAndSymlink ==
  Quiescent => \A r \in packages : Consistent(r)

\* a real Update has returned the error of the symlink creation: the record
\* it was called for is stored as before and the command symlink of its repo,
\* in place when the Update began, is gone
C34_Witness ==
  \E p \in Procs :
    LET l == run[p] IN
    /\ Returned(p, "Update") /\ "symlink" \in l.bad
    /\ l.pkg \in packages /\ Consistent(l.pkg) = FALSE
    /\ [path |-> CommandSymlink(l.repo), target |-> BinaryPath(l.pkg.Binary)]
         \in l.pre.links
    /\ ~Exists(CommandSymlink(l.repo))

\* the binary and the command symlink of record r were in place in w
ConsistentIn(w, r) ==
  /\ BinaryPath(r.Binary) \in w.files
  /\ [path |-> SymlinkPath(r.Repo, plat), target |-> BinaryPath(r.Binary)]
       \in w.links

\* a real Update of a package that was Installed (record, binary and symlink
\* in place) has returned an error
FailedUpdate(l) ==
  /\ l.op = "Update" /\ l.pc = "done" /\ ~l.opts.DryRun /\ l.err # ""
  /\ Stored(l.pre, l.owner, l.repo) # {}
  /\ \A r0 \in Stored(l.pre, l.owner, l.repo) : ConsistentIn(l.pre, r0)

\* C35: after a real Update that returned an error the record is as it was,
\* the old binary exists, the command symlink exists and points to the old
\* binary, and no new binary file remains.
C35_FailedUpdateLeavesInstalledState ==
  \A p \in Procs :
    LET l == run[p] IN
    FailedUpdate(l) =>
      /\ Stored(World, l.owner, l.repo) = Stored(l.pre, l.owner, l.repo)
      /\ \A r0 \in Stored(l.pre, l.owner, l.repo) : ConsistentIn(World, r0)
      /\ files \subseteq l.pre.files

\* a real Update of an Installed package has returned the error of
\* store.UpdatePackage after it had replaced the symlink: the record is as
\* it was and its command symlink is gone
C35_Witness ==
  \E p \in Procs :
    LET l == run[p] IN
    /\ FailedUpdate(l) /\ "update" \in l.bad
    /\ {"download", "chmod", "rmlink", "symlink"} \subseteq l.ok
    /\ Stored(World, l.owner, l.repo) = Stored(l.pre, l.owner, l.repo)
    /\ ~Exists(SymlinkPath(l.repo, plat))

\* C36: whenever every invocation made so far has returned, every binary
\* file and every command symlink is referenced by a stored record, and an
\* Install that returned an error at download, chmod, symlink creation or
\* insert has left no binary file and no symlink for its package.
C36_NoOrphans ==
  /\ Quiescent =>
       /\ \A f \in files : \E r \in packages : f = BinaryPath(r.Binary)
       /\ \A k \in links : \E r \in packages : k.path = SymlinkPath(r.Repo, plat)
  /\ \A p \in Procs :
       LET l == run[p] IN
       (Returned(p, "Install") /\ AbsentAtEntry(l) /\ InstallSteps \cap l.bad # {}) =>
         /\ BinaryPath(l.binaryName) \notin files
         /\ \A k \in links : k.target # BinaryPath(l.binaryName)

\* an Install of an Absent package has returned the chmod error and the
\* binary it downloaded is in the binary store, with no record at all
C36_Witness ==
  \E p \in Procs :
    LET l == run[p] IN
    /\ Returned(p, "Install") /\ AbsentAtEntry(l)
    /\ "download" \in l.ok /\ "chmod" \in l.bad
    /\ l.err = "failed to make binary executable"
    /\ BinaryPath(l.binaryName) \in files
    /\ packages = {}

\* the records of another owner's package of the same repo name that were
\* Installed (record, binary and symlink in place) when l began
SameRepoInstalled(l) ==
  { r \in l.pre.packages :
      r.Repo = l.repo /\ r.Owner # l.owner /\ ConsistentIn(l.pre, r) }

\* a real Install of owner2/repo has returned, called while owner1/repo was
\* Installed and owner2/repo had no record
CollidingInstall(l) ==
  /\ l.op = "Install" /\ l.pc = "done" /\ ~l.opts.DryRun
  /\ AbsentAtEntry(l)
  /\ SameRepoInstalled(l) # {}

\* the error, the store and the package of the other owner after a
\* colliding Install
CollidingInstallIsHarmless ==
  \A p \in Procs :
    LET l == run[p] IN
    CollidingInstall(l) =>
      /\ l.err # ""
      /\ packages = l.pre.packages
      /\ links = l.pre.links
      /\ \A r \in SameRepoInstalled(l) : ConsistentIn(World, r)

\* C37: a real Install of owner2/repo while owner1/repo is Installed returns
\* an error, stores no record for owner2/repo, leaves no binary file of
\* owner2/repo, and leaves the symlink, the binary and the record of
\* owner1/repo as they were.
C37_CollidingInstallLeavesNothing ==
  /\ CollidingInstallIsHarmless
  /\ \A p \in Procs :
       LET l == run[p] IN
       CollidingInstall(l) =>
         /\ Stored(World, l.owner, l.repo) = {}
         /\ l.binaryName # "" => BinaryPath(l.binaryName) \notin files

\* a real Install of owner2/repo has failed to create the symlink that
\* owner1/repo holds, and the binary it downloaded is still there
C37_Witness ==
  \E p \in Procs :
    LET l == run[p] IN
    /\ CollidingInstall(l) /\ "symlink" \in l.bad
    /\ l.err = "failed to create symlink"
    /\ BinaryPath(l.binaryName) \in files
    /\ BinaryPath(l.binaryName) \notin l.pre.files

(***************************************************************************)
(* Further properties of SelectAsset                                       *)
(***************************************************************************)
\* the platforms a release asset can be built for
NamedPlatforms ==
  [OS : {"linux", "darwin", "windows"}, Arch : {"amd64", "arm64", "arm", "386"}]

\* name is app-{os}-{arch} of platform q, with or without .exe, in any case
NamesPlatform(name, q) ==
  LET exact == "app-" \o q.OS \o "-" \o q.Arch
  IN ToLower(name) \in {exact, exact \o ".exe"}

\* name is app-{os}-{arch} of a platform other than p
NamesAnother(name, p) ==
  \E q \in NamedPlatforms \ {p} : NamesPlatform(name, q)

\* C38: when the list holds an asset that names exactly the OS and the
\* architecture of the platform, SelectAsset does not return an asset that
\* names another operating system or another architecture.
C38_NeverAnotherPlatformsAsset ==
  \A p \in Procs :
    LET l == run[p] IN
    ( /\ Called(p, "SelectAsset")
      /\ \E i \in 1..Len(l.assets) : NamesPlatform(l.assets[i], plat) ) =>
      ~NamesAnother(l.asset, plat)

\* SelectAsset has returned app-linux-arm64 on linux/arm for a list that
\* holds app-linux-arm after it
C38_Witness ==
  \E p \in Procs :
    LET l == run[p] IN
    /\ Called(p, "SelectAsset") /\ plat = [OS |-> "linux", Arch |-> "arm"]
    /\ l.assets = <<"app-linux-arm64", "app-linux-arm">>
    /\ l.err = "" /\ l.asset = "app-linux-arm64"

(***************************************************************************)
(* Further properties of the repository selector                           *)
(***************************************************************************)
\* the number of candidates the last search returned
Candidates(l) == l.queries[Len(l.queries)].n

\* SelectRepository has returned after its searches found a candidate
Resolved(l) ==
  /\ l.op = "SelectRepository" /\ l.pc = "done"
  /\ l.queries # <<>>
  /\ Candidates(l) >= 1

ConcOptions == { o \in Options : ~o.DryRun /\ ~o.NonInteractive }

\* each process is one invocation of gaap install owner/repo
ConcInstallBegin(p) ==
  /\ run[p].pc = "idle"
  /\ \E r \in repos, o \in ConcOptions : InstallBegin(p, r, o)

ConcNext ==
  \E p \in Procs :
    \/ ConcInstallBegin(p)
    \/ InstallRelease(p)
    \/ InstallEnsureDirs(p)
    \/ InstallDownload(p)
    \/ InstallChmod(p)
    \/ InstallSymlink(p)
    \/ InstallAdd(p)
    \/ Cleanup(p)

ConcSpec == Init /\ [][ConcNext]_vars

(***************************************************************************)
(* Properties of Install run by two processes                              *)
(***************************************************************************)
\* both processes have returned from an Install of the same owner/repo that
\* had no record when either began, and no step of either failed other than
\* the creation of the symlink or the insert
RaceOver ==
  /\ \A p \in Procs :
       /\ Returned(p, "Install") /\ AbsentAtEntry(run[p])
       /\ run[p].bad \subseteq {"symlink", "insert"}
  /\ \A p, q \in Procs : run[p].repoName = run[q].repoName

\* nothing of the package owner/repo exists
NothingOf(owner, repo) ==
  /\ Stored(World, owner, repo) = {}
  /\ ~Exists(SymlinkPath(repo, plat))
  /\ \A t \in Tags, a \in {"", ".exe"} :
       BinaryPath(owner \o "-" \o repo \o "-" \o t \o a) \notin files

\* the record of owner/repo exists with its binary and its symlink
AllOf(owner, repo) ==
  /\ Stored(World, owner, repo) # {}
  /\ \A r \in Stored(World, owner, repo) : ConsistentIn(World, r)

\* C40: of two concurrent Installs of the same Absent owner/repo at most one
\* succeeds, and when both have returned either nothing of the package
\* exists or its record, its symlink and its binary all exist.
C40_ConcurrentInstallsAllOrNothing ==
  RaceOver =>
    /\ \E p \in Procs : run[p].err # ""
    /\ \A p \in Procs :
         NothingOf(run[p].owner, run[p].repo) \/ AllOf(run[p].owner, run[p].repo)

\* one Install has stored the record and returned success, the other has
\* returned the symlink error, and the binary the record names is gone
C40_Witness ==
  \E p, q \in Procs :
    /\ RaceOver
    /\ run[p].err = "" /\ "insert" \in run[p].ok
    /\ run[q].err = "failed to create symlink"
    /\ run[q].binaryName = run[p].binaryName
    /\ \E r \in Stored(World, run[p].owner, run[p].repo) :
         r.Binary = run[p].binaryName
    /\ Exists(SymlinkPath(run[p].repo, plat))
    /\ BinaryPath(run[p].binaryName) \notin files

\* at most one of the two Installs returns success
AtMostOneSucceeds == RaceOver => \E p \in Procs : run[p].err # ""

====
